---- MODULE Spec2Model ----
(***************************************************************************)
(* Periodic-geometry core of pwtools (crys.py): minimum image convention,  *)
(* pairwise distances, nearest-neighbour query and the admission check of  *)
(* rpdf.                                                                   *)
(*                                                                         *)
(* Numbers.  Fractional coordinates are fixed-point in units of 1/4: the   *)
(* integer n stands for n/4, so the code's 0.5 is Half = 2 and its 1.0 is  *)
(* One = 4.  Additions, subtractions and comparisons of such values are    *)
(* exact in binary floating point, as they are on this grid.               *)
(***************************************************************************)
EXTENDS Integers, Sequences, FiniteSets

\* ------------------------------------------------------------------ bounds
\* largest |component| handed to min_image_convention, in periodic images
MaxImages == 6
\* longest array handed to min_image_convention
MaxLen == 2
\* atoms of the structure handed to nearest_neighbors_from_dists
MaxAtoms == 3
\* atoms sit at the integer positions 0..MaxPos of a line
MaxPos == 2
\* time steps of the trajectory handed to rpdf
MaxSteps == 2
\* largest entry of dims in a call of scell
MaxDim == 2
\* largest entry of a cell matrix handed to volume_cell
MaxEntry == 1
\* bits of the mantissa of the modelled floating point numbers
MantBits == 3
\* time steps of a Trajectory that is iterated over
MaxIterSteps == 3
\* for-loops started over one Trajectory
MaxLoops == 3
\* largest atom_maxtry and cell_maxtry of a RandomStructure
MaxTry == 2
\* Structure and Trajectory objects alive at once
MaxObjs == 2

\* ------------------------------------------------------- program constants
\* 0.5 and 1.0 of min_image_convention, in units of 1/4
Half == 2
One == 4
\* floating point numbers of the wrap and loop models: a mantissa of
\* MantBits bits (a double has 53), rounded to nearest, ties to even; the
\* numbers are multiples of a unit 2^-(MantBits+1), so that 1.0 - unit is
\* not a float; FOne is 1.0 and FHalf is 0.5 in that unit
RECURSIVE Pow2(_)
Pow2(n) == IF n = 0 THEN 1 ELSE 2 * Pow2(n - 1)
FOne == Pow2(MantBits + 1)
FHalf == FOne \div 2
\* bytes of one displacement vector in the memory estimate of rpdf (24.0)
BytesPerVector == 24

None == "None"

VARIABLES
    op,         \* which library function this behaviour exercises
    pc,         \* "ready" before the call, then "returned" or "raised"
    sij,        \* min_image_convention: content of the caller's array object
    sij0,       \* content of the caller's array before the first call
    ret,        \* content of the array object returned by the latest call
    retIsArg,   \* the returned object is the very object passed in by the caller
    ncall,      \* number of calls made so far
    ret1,       \* array returned by the first call
    copyArg,    \* copy flag of each call made so far
    coords_frac,    \* distances: struct.coords_frac, one 3-vector per atom
    cell,           \* distances: struct.cell, the rows are the cell vectors
    distArgs,       \* distances: the arguments pbc, squared, fullout of the call
    distRet,        \* distances: what the call returned
    dists,          \* nearest_neighbors_from_dists: the distance matrix passed in
    symbols,        \* nearest_neighbors_from_dists: the atom symbols passed in
    nnArgs,         \* the arguments idx, skip, cutoff, num, sort, fullout
    nnErr,          \* the exception raised, "" when none
    nnSorted,       \* ret_idx as selected in distance order (before "if not sort")
    nnRet,          \* whether ret_idx was computed, and what the call returned
    trajs,          \* rpdf: the trajectories passed in (a list of one or two)
    traj,           \* rpdf: trajs[0] and trajs[1] as read after the validation
    rpArgs,         \* rpdf: the arguments amask, dr, rmax, pbc, norm_vmd, maxmem
    rpLoc,          \* rpdf: the local variables of the running call
    rpOut,          \* rpdf: the array returned
    scStruct,       \* scell: the structure passed in (symbols, coords_frac, cell)
    scArgs,         \* scell: the arguments dims and method
    scRet,          \* scell: the structure returned, or the error raised
    volArgs,        \* volume_cell / volume_cc: the argument (cell or cryst_const)
    volRet,          \* volume_cell / volume_cc: the value returned, or the error raised
    wrCoords,       \* pbc_wrap_coords: content of the caller's array object
    wrArgs,         \* pbc_wrap_coords: the array before the call, mask, and copy of each call
    wrRet,           \* pbc_wrap_coords: the arrays returned by the calls made so far
    itTraj,         \* Trajectory iteration: the object (nstep, the steps, _index)
    itLoops,        \* Trajectory iteration: the for-loops started so far, with what they were given
    itStack,         \* Trajectory iteration: the for-loops that are running, innermost last
    rsArgs,         \* RandomStructure: natoms, atom_maxtry, cell_maxtry
    rsLoc,          \* RandomStructure: cell, coords_frac, the loop counters and what was checked
    rsRet,           \* RandomStructure: the Structure that is returned
    uObjs,           \* units: the Structure and Trajectory objects that exist
    mfSij,          \* min_image_convention on floats: the array sij
    mfSij0,         \* min_image_convention on floats: sij as passed in
    mfPasses,        \* min_image_convention on floats: passes of the two loops so far
    rcTrajs,        \* rpdf: the object the caller passed as trajs, now and at the call
    rcAmask         \* rpdf: the object the caller passed as amask, now and at the call

micVars == <<sij, sij0, ret, retIsArg, ncall, ret1, copyArg>>
distVars == <<coords_frac, cell, distArgs, distRet>>
nnVars == <<dists, symbols, nnArgs, nnErr, nnSorted, nnRet>>
rpVars == <<trajs, traj, rpArgs, rpLoc, rpOut>>
scVars == <<scStruct, scArgs, scRet>>
volVars == <<volArgs, volRet>>
wrVars == <<wrCoords, wrArgs, wrRet>>
itVars == <<itTraj, itLoops, itStack>>
rsVars == <<rsArgs, rsLoc, rsRet>>
unVars == <<uObjs>>
mfVars == <<mfSij, mfSij0, mfPasses>>
rcVars == <<rcTrajs, rcAmask>>
vars == <<op, pc, sij, sij0, ret, retIsArg, ncall, ret1, copyArg,
          coords_frac, cell, distArgs, distRet,
          dists, symbols, nnArgs, nnErr, nnSorted, nnRet,
          trajs, traj, rpArgs, rpLoc, rpOut,
          scStruct, scArgs, scRet,
          volArgs, volRet,
          wrCoords, wrArgs, wrRet,
          itTraj, itLoops, itStack,
          rsArgs, rsLoc, rsRet,
          uObjs,
          mfSij, mfSij0, mfPasses,
          rcTrajs, rcAmask>>

\* nothing computed, nothing returned
NoRet == [computed |-> FALSE, ret_idx |-> <<>>, dist |-> <<>>]

\* the variables of the functions a behaviour does not exercise
IdleMIC ==
    /\ sij = None /\ sij0 = None /\ ret = None /\ retIsArg = FALSE
    /\ ncall = 0 /\ ret1 = None /\ copyArg = <<>>
IdleDist ==
    /\ coords_frac = None /\ cell = None /\ distArgs = None /\ distRet = None
IdleNN ==
    /\ dists = None /\ symbols = None /\ nnArgs = None /\ nnErr = ""
    /\ nnSorted = <<>> /\ nnRet = NoRet
IdleRpdf ==
    /\ trajs = None /\ traj = None
    /\ rpArgs = None /\ rpLoc = None /\ rpOut = None
IdleScell ==
    /\ scStruct = None /\ scArgs = None /\ scRet = None
IdleWrap ==
    wrCoords = None /\ wrArgs = None /\ wrRet = None
IdleVolume ==
    volArgs = None /\ volRet = None
IdleRandom ==
    rsArgs = None /\ rsLoc = None /\ rsRet = None
IdleIter ==
    itTraj = None /\ itLoops = None /\ itStack = None
IdleMICFloat ==
    mfSij = None /\ mfSij0 = None /\ mfPasses = None
IdleUnits ==
    uObjs = None
IdleCaller ==
    rcTrajs = None /\ rcAmask = None

\* ------------------------------------------------- min_image_convention
Any(mask) == \E i \in DOMAIN mask : mask[i]

\* the comparison written as sij > 0.5
MaskHighStrict(a) == [i \in DOMAIN a |-> a[i] > Half]

\* mask = sij >= 0.5
MaskHigh(a) == [i \in DOMAIN a |-> a[i] >= Half]

\* the comparison written as sij <= -0.5
MaskLowInclusive(a) == [i \in DOMAIN a |-> a[i] <= -Half]

\* mask = sij < -0.5
MaskLow(a) == [i \in DOMAIN a |-> a[i] < -Half]

\* sij[mask] -= 1.0
SubMasked(a, mask) == [i \in DOMAIN a |-> IF mask[i] THEN a[i] - One ELSE a[i]]

\* sij[mask] += 1.0
AddMasked(a, mask) == [i \in DOMAIN a |-> IF mask[i] THEN a[i] + One ELSE a[i]]

\* a single correction pass instead of the loop
LoopHighOnce(a) == SubMasked(a, MaskHigh(a))

RECURSIVE LoopHigh(_)
LoopHigh(a) ==
    IF Any(MaskHigh(a)) THEN LoopHigh(SubMasked(a, MaskHigh(a))) ELSE a

RECURSIVE LoopLow(_)
LoopLow(a) ==
    IF Any(MaskLow(a)) THEN LoopLow(AddMasked(a, MaskLow(a))) ELSE a

\* content of the array the function returns
MicValue(a) == LoopLow(LoopHigh(a))

\* the copy flag ignored: always a fresh object
WorksOnCopyAlways(copy) == TRUE

\* sij = sij.copy() if copy else sij: TRUE when the function works on a fresh object
WorksOnCopy(copy) == copy

MicComp == (-(MaxImages * One)) .. (MaxImages * One)
MicArrays == UNION {[1..n -> MicComp] : n \in 1..MaxLen}

InitMIC ==
    /\ op = "min_image_convention"
    /\ pc = "ready"
    /\ sij \in MicArrays
    /\ sij0 = sij
    /\ ret = None
    /\ retIsArg = FALSE
    /\ ncall = 0
    /\ ret1 = None
    /\ copyArg = <<>>
    /\ IdleDist
    /\ IdleNN
    /\ IdleRpdf
    /\ IdleScell
    /\ IdleVolume
    /\ IdleWrap
    /\ IdleIter
    /\ IdleRandom
    /\ IdleUnits
    /\ IdleMICFloat
    /\ IdleCaller

\* first call: ret = min_image_convention(sij, copy)
MicCall(copy) ==
    /\ op = "min_image_convention"
    /\ ncall = 0
    /\ LET r == MicValue(sij) IN
        /\ ret' = r
        /\ ret1' = r
        /\ sij' = IF WorksOnCopy(copy) THEN sij ELSE r
    /\ retIsArg' = ~WorksOnCopy(copy)
    /\ ncall' = 1
    /\ pc' = "returned"
    /\ copyArg' = Append(copyArg, copy)
    /\ UNCHANGED <<op, sij0>>
    /\ UNCHANGED <<distVars, nnVars, rpVars, scVars, volVars, wrVars, itVars, rsVars, unVars, mfVars, rcVars>>

\* second call, on the array the first call returned:
\* ret = min_image_convention(ret, copy)
MicCallOnResult(copy) ==
    /\ op = "min_image_convention"
    /\ ncall = 1
    /\ LET r == MicValue(ret) IN
        /\ ret' = r
        /\ sij' = IF retIsArg /\ ~WorksOnCopy(copy) THEN r ELSE sij
    /\ retIsArg' = (retIsArg /\ ~WorksOnCopy(copy))
    /\ ncall' = 2
    /\ copyArg' = Append(copyArg, copy)
    /\ UNCHANGED <<op, pc, sij0, ret1>>
    /\ UNCHANGED <<distVars, nnVars, rpVars, scVars, volVars, wrVars, itVars, rsVars, unVars, mfVars, rcVars>>

NextMIC ==
    \/ \E copy \in BOOLEAN : MicCall(copy)
    \/ \E copy \in BOOLEAN : MicCallOnResult(copy)

SpecMIC == InitMIC /\ [][NextMIC]_vars

\* ------------------------------------------------------------- claims C1-C4
InRange(x) == -Half <= x /\ x < Half

\* C1: every component of the result of min_image_convention lies in
\* [-0.5, 0.5), whatever the magnitude of the input; an input component 0.5
\* becomes -0.5 and an input component -0.5 stays -0.5.
C1_ResultInHalfOpenInterval ==
    ncall >= 1 =>
        /\ DOMAIN ret = DOMAIN sij0
        /\ \A i \in DOMAIN ret : InRange(ret[i])
        /\ \A i \in DOMAIN ret1 :
            /\ sij0[i] = Half => ret1[i] = -Half
            /\ sij0[i] = -Half => ret1[i] = -Half

C1_Witness ==
    /\ ncall = 1
    /\ \E i \in DOMAIN sij0 : sij0[i] > 5 * One /\ InRange(ret[i])
    /\ \E j \in DOMAIN sij0 : sij0[j] = Half /\ ret[j] = -Half

\* ((x + 0.5) mod 1.0) - 0.5 with a non-negative mod
ClosedForm(x) == ((x + Half) % One) - Half

\* C2: the loop-until-stable result equals the closed form
\* ((x + 0.5) mod 1.0) - 0.5 for every component, also far more than one
\* lattice image away.
C2_LoopEqualsClosedForm ==
    ncall >= 1 => \A i \in DOMAIN ret1 : ret1[i] = ClosedForm(sij0[i])

C2_Witness ==
    /\ ncall = 1
    /\ \E i \in DOMAIN sij0 :
        /\ sij0[i] < -(3 * One)
        /\ ret[i] = ClosedForm(sij0[i])
        /\ ret[i] # sij0[i] + One

\* C3: min_image_convention is idempotent: applied to its own output it
\* returns that output unchanged.
C3_Idempotent ==
    ncall = 2 => ret = ret1

C3_Witness ==
    /\ ncall = 2
    /\ ret = ret1
    /\ \E i \in DOMAIN sij0 : sij0[i] > 5 * One
    /\ \E j \in DOMAIN sij0 : sij0[j] < -(5 * One)

\* C4: with copy=True the caller's array is unchanged and a new array is
\* returned; with copy=False the caller's array is modified in place and is
\* the array returned, so it holds the wrapped values after the call.
C4_CopyFlagDecidesSideEffect ==
    ncall = 1 =>
        IF copyArg[1]
        THEN sij = sij0 /\ ~retIsArg
        ELSE /\ retIsArg
             /\ sij = ret
             /\ \A i \in DOMAIN sij : InRange(sij[i])

C4_Witness ==
    /\ ncall = 1
    /\ ~copyArg[1]
    /\ retIsArg
    /\ sij # sij0
    /\ sij = ret

\* ------------------------------------------------------------ distances
\* Cell matrices (rows are the cell vectors, integer lengths): cubic,
\* orthorhombic, monoclinic and triclinic.
Cells ==
    { <<<<1, 0, 0>>, <<0, 1, 0>>, <<0, 0, 1>>>>,
      <<<<2, 0, 0>>, <<0, 3, 0>>, <<0, 0, 1>>>>,
      <<<<1, 0, 0>>, <<1, 1, 0>>, <<0, 0, 1>>>>,
      <<<<2, 0, 0>>, <<1, 2, 0>>, <<1, 1, 2>>>> }

XYZ == 1..3

\* is the cell orthogonal (all pairs of cell vectors perpendicular)
Dot3(u, v) == u[1] * v[1] + u[2] * v[2] + u[3] * v[3]
IsOrthogonal(c) == \A m, n \in XYZ : m # n => Dot3(c[m], c[n]) = 0

\* np.dot(s, cell) for one row vector s
DotCell(s, c) == [k \in XYZ |-> s[1] * c[1][k] + s[2] * c[2][k] + s[3] * c[3][k]]

\* (v**2.0).sum() of one vector
SumSq(v) == v[1] * v[1] + v[2] * v[2] + v[3] * v[3]

\* np.sqrt(x), kept symbolic: two square roots are equal exactly when their
\* arguments are
Sqrt(x) == <<"sqrt", x>>

\* distvecs_frac = cf[:,None,:] - cf[None,:,:], min_image_convention if pbc
DistvecsFrac(cf, pbc) ==
    [i \in DOMAIN cf |-> [j \in DOMAIN cf |->
        LET d == [k \in XYZ |-> cf[i][k] - cf[j][k]]
        IN  IF pbc THEN MicValue(d) ELSE d]]

\* distvecs = np.dot(distvecs_frac, cell)
Distvecs(dvf, c) ==
    [i \in DOMAIN dvf |-> [j \in DOMAIN dvf[i] |-> DotCell(dvf[i][j], c)]]

\* distsq = (distvecs**2.0).sum(axis=2)
Distsq(dv) ==
    [i \in DOMAIN dv |-> [j \in DOMAIN dv[i] |-> SumSq(dv[i][j])]]

\* what _flib.distsq_frac fills in: distsq, distvecs, distvecs_frac
distsq_frac(cf, c, pbc) ==
    LET dvf == DistvecsFrac(cf, pbc)
        dv == Distvecs(dvf, c)
    IN  [distsq |-> Distsq(dv), distvecs |-> dv, distvecs_frac |-> dvf]

\* distances(struct, pbc, squared, fullout)
distances(cf, c, pbc, squared, fullout) ==
    LET f == distsq_frac(cf, c, pbc)
        d == IF squared THEN f.distsq
             ELSE [i \in DOMAIN cf |-> [j \in DOMAIN cf |-> Sqrt(f.distsq[i][j])]]
    IN  IF fullout
        THEN [dists |-> d, distvecs |-> f.distvecs,
              distvecs_frac |-> f.distvecs_frac]
        ELSE [dists |-> d, distvecs |-> None, distvecs_frac |-> None]

\* Two atoms stand for any pair (i, j) of a structure: every entry of the
\* distance matrix depends on the coordinates of its own two atoms only.
DistAtoms == 1..2
FracPoints == [XYZ -> 0..(One - 1)]

InitDist ==
    /\ op = "distances"
    /\ pc = "ready"
    /\ coords_frac \in [DistAtoms -> FracPoints]
    /\ cell \in Cells
    /\ distArgs = None
    /\ distRet = None
    /\ IdleMIC
    /\ IdleNN
    /\ IdleRpdf
    /\ IdleScell
    /\ IdleVolume
    /\ IdleWrap
    /\ IdleIter
    /\ IdleRandom
    /\ IdleUnits
    /\ IdleMICFloat
    /\ IdleCaller

CallDistances(pbc, squared, fullout) ==
    /\ op = "distances"
    /\ pc = "ready"
    /\ pc' = "returned"
    /\ distArgs' = [pbc |-> pbc, squared |-> squared, fullout |-> fullout]
    /\ distRet' = distances(coords_frac, cell, pbc, squared, fullout)
    /\ UNCHANGED <<op, coords_frac, cell>>
    /\ UNCHANGED <<micVars, nnVars, rpVars, scVars, volVars, wrVars, itVars, rsVars, unVars, mfVars, rcVars>>

NextDist ==
    \E pbc \in BOOLEAN, squared \in BOOLEAN, fullout \in BOOLEAN :
        CallDistances(pbc, squared, fullout)

SpecDist == InitDist /\ [][NextDist]_vars

\* ---------------------------------------------------------------- claim C5
\* C5: for every structure and lattice, pbc on or off, the matrix returned
\* by distances() has dists[i,j] = dists[j,i] for all i, j and a zero
\* diagonal, also when a fractional difference is exactly 0.5.
C5_DistancesSymmetric ==
    (op = "distances" /\ pc = "returned") =>
        /\ \A i, j \in DistAtoms : distRet.dists[i][j] = distRet.dists[j][i]
        /\ \A i \in DistAtoms :
            distRet.dists[i][i] = IF distArgs.squared THEN 0 ELSE Sqrt(0)

\* ------------------------------------------- nearest_neighbors_from_dists
\* An optional argument is <<>> for Python's None and <<v>> for the value v.
IsNone(x) == x = <<>>
Some(v) == <<v>>
Val(x) == x[1]

Min(a, b) == IF a <= b THEN a ELSE b
Abs(x) == IF x < 0 THEN -x ELSE x
Range(f) == {f[k] : k \in DOMAIN f}

\* assert idx != None
IdxGiven(idx) == ~IsNone(idx)

\* the assertion dropped
EitherNoneUnchecked(num, cutoff) == TRUE

\* assert None in [num, cutoff]
EitherNone(num, cutoff) == IsNone(num) \/ IsNone(cutoff)

\* dist1d = dists[:,idx]
Dist1d(dm, idx) == [j \in DOMAIN dm |-> dm[j][idx]]

\* the orderings of the indices 1..n
Perms(n) ==
    {p \in [1..n -> 1..n] : \A a, b \in 1..n : a # b => p[a] # p[b]}

PermsUpTo == [n \in 1..MaxAtoms |-> Perms(n)]

\* np.argsort(dist1d): the index sequences that sort dist1d ascending; which
\* of them argsort returns when distances tie is left open by the code
Argsorts(d) ==
    {p \in PermsUpTo[Len(d)] :
        \A k \in 1..(Len(d) - 1) : d[p[k]] <= d[p[k + 1]]}

\* a[mask]: the elements of a where mask holds, in order
RECURSIVE Compress(_, _)
Compress(a, mask) ==
    IF a = <<>> THEN <<>>
    ELSE LET rest == Compress(Tail(a), Tail(mask))
         IN  IF Head(mask) THEN <<Head(a)>> \o rest ELSE rest

\* a[lo:hi] of a Python sequence (0-based, hi exclusive, clipped at the end)
PySlice(a, lo, hi) ==
    IF lo >= Min(hi, Len(a)) THEN <<>> ELSE SubSeq(a, lo + 1, Min(hi, Len(a)))

\* common.asseq(skip) followed by the test skip != [None]: only_msk
OnlyMsk(symbols_sort, skip) ==
    IF ~IsNone(skip)
    THEN [k \in DOMAIN symbols_sort |-> ~(symbols_sort[k] \in Range(Val(skip)))]
    ELSE [k \in DOMAIN symbols_sort |-> TRUE]

\* cut_msk = np.s_[1:num+1]; ret_idx = idx_lst_sort[only_msk][cut_msk]
SelectNum(idx_lst_sort, only_msk, num) ==
    PySlice(Compress(idx_lst_sort, only_msk), 1, num + 1)

\* the cutoff included: dist1d_sort <= cutoff
CutMskInclusive(dist1d_sort, cutoff) ==
    [k \in DOMAIN dist1d_sort |-> dist1d_sort[k] > 0 /\ dist1d_sort[k] <= cutoff]

\* cut_msk = (dist1d_sort > 0) & (dist1d_sort < cutoff)
CutMsk(dist1d_sort, cutoff) ==
    [k \in DOMAIN dist1d_sort |-> dist1d_sort[k] > 0 /\ dist1d_sort[k] < cutoff]

\* ret_idx = idx_lst_sort[cut_msk & only_msk]
SelectCutoff(idx_lst_sort, dist1d_sort, only_msk, cutoff) ==
    LET cut_msk == CutMsk(dist1d_sort, cutoff)
    IN  Compress(idx_lst_sort,
                 [k \in DOMAIN idx_lst_sort |-> cut_msk[k] /\ only_msk[k]])

\* num.match_mask(arr, values): True where arr[i] equals one of values
match_mask(arr, values) == [i \in DOMAIN arr |-> arr[i] \in Range(values)]

\* the reordering left out
UnsortNoop(ret_idx, n) == ret_idx

\* orig_idx = np.arange(len(dist1d)); ret_idx = orig_idx[match_mask(orig_idx, ret_idx)]
Unsort(ret_idx, n) ==
    LET orig_idx == [i \in 1..n |-> i]
    IN  Compress(orig_idx, match_mask(orig_idx, ret_idx))

\* dist1d[ret_idx]
RetDist(dist1d, ret_idx) == [k \in DOMAIN ret_idx |-> dist1d[ret_idx[k]]]


\* What one call does once argsort has returned p: the exception raised (""
\* when none), ret_idx as selected in distance order, and the value returned.
NNOutcome(dm, sy, idx, skip, cutoff, num, sort, fullout, p) ==
    IF ~IdxGiven(idx) THEN [err |-> "AssertionError", sorted |-> <<>>, ret |-> NoRet]
    ELSE IF ~EitherNone(num, cutoff)
    THEN [err |-> "AssertionError", sorted |-> <<>>, ret |-> NoRet]
    ELSE IF IsNone(cutoff) /\ IsNone(num)
    \* num+1 with num None
    THEN [err |-> "TypeError", sorted |-> <<>>, ret |-> NoRet]
    ELSE
        LET dist1d == Dist1d(dm, Val(idx))
            idx_lst_sort == p
            dist1d_sort == [k \in DOMAIN p |-> dist1d[p[k]]]
            symbols_sort == [k \in DOMAIN p |-> sy[p[k]]]
            only_msk == OnlyMsk(symbols_sort, skip)
            sel == IF IsNone(cutoff)
                   THEN SelectNum(idx_lst_sort, only_msk, Val(num))
                   ELSE SelectCutoff(idx_lst_sort, dist1d_sort, only_msk, Val(cutoff))
            ret_idx == IF sort THEN sel ELSE Unsort(sel, Len(dist1d))
        IN  [err |-> "", sorted |-> sel,
             ret |-> [computed |-> TRUE, ret_idx |-> ret_idx,
                      dist |-> IF fullout THEN RetDist(dist1d, ret_idx) ELSE <<>>]]

Species == {"A", "B"}

\* distance matrix of atoms at the positions pos of a line: symmetric, zero
\* diagonal, as distances() returns it
LineDists(pos) == [i \in DOMAIN pos |-> [j \in DOMAIN pos |-> Abs(pos[i] - pos[j])]]

NNDistMatrices ==
    UNION {{LineDists(pos) : pos \in [1..n -> 0..MaxPos]} : n \in 1..MaxAtoms}

\* skip: None, 'A' (or ['A']), ['A', 'B']; skipping 'B' alone is the same up
\* to renaming the two species
SkipArgs == {<<>>, Some(<<"A">>), Some(<<"A", "B">>)}

\* <<num, cutoff>>: neither given, one given, or both given (then with the
\* same number, the values playing no part in that case)
NumCutoffArgs ==
    LET nums == {<<>>} \cup {Some(k) : k \in 1..MaxAtoms}
        cuts == {<<>>} \cup {Some(c) : c \in 1..(MaxPos + 1)}
    IN  {a \in nums \X cuts : IsNone(a[1]) \/ IsNone(a[2]) \/ a[1] = a[2]}

InitNN ==
    /\ op = "nearest_neighbors_from_dists"
    /\ pc = "ready"
    /\ dists \in NNDistMatrices
    /\ symbols \in [DOMAIN dists -> Species]
    /\ nnArgs = None
    /\ nnErr = ""
    /\ nnSorted = <<>>
    /\ nnRet = NoRet
    /\ IdleMIC
    /\ IdleDist
    /\ IdleRpdf
    /\ IdleScell
    /\ IdleVolume
    /\ IdleWrap
    /\ IdleIter
    /\ IdleRandom
    /\ IdleUnits
    /\ IdleMICFloat
    /\ IdleCaller

\* the orders np.argsort may return for the column of atom idx
ArgsortsFor(dm, idx) ==
    IF IdxGiven(idx) THEN Argsorts(Dist1d(dm, Val(idx))) ELSE {<<>>}

\* nearest_neighbors_from_dists(dists, symbols, idx, skip, cutoff, num, sort,
\* fullout), p being the order np.argsort returns
CallNN(idx, skip, cutoff, num, sort, fullout, p) ==
    /\ op = "nearest_neighbors_from_dists"
    /\ pc = "ready"
    /\ LET o == NNOutcome(dists, symbols, idx, skip, cutoff, num, sort, fullout, p)
       IN  /\ nnErr' = o.err
           /\ nnSorted' = o.sorted
           /\ nnRet' = o.ret
           /\ pc' = IF o.err = "" THEN "returned" ELSE "raised"
    /\ nnArgs' = [idx |-> idx, skip |-> skip, cutoff |-> cutoff, num |-> num,
                  sort |-> sort, fullout |-> fullout]
    /\ UNCHANGED <<op, dists, symbols>>
    /\ UNCHANGED <<micVars, distVars, rpVars, scVars, volVars, wrVars, itVars, rsVars, unVars, mfVars, rcVars>>

NextNN ==
    /\ pc = "ready"
    /\ \E idx \in {<<>>} \cup {Some(i) : i \in DOMAIN dists} :
       \E p \in ArgsortsFor(dists, idx) :
       \E skip \in SkipArgs, nc \in NumCutoffArgs,
          sort \in BOOLEAN, fullout \in BOOLEAN :
            CallNN(idx, skip, nc[2], nc[1], sort, fullout, p)

SpecNN == InitNN /\ [][NextNN]_vars

\* ------------------------------------------------------------ claims C6-C9
NNCalled == op = "nearest_neighbors_from_dists" /\ pc # "ready"
NNReturned == op = "nearest_neighbors_from_dists" /\ pc = "returned"

\* the atoms other than idx whose species is not in skip
Qualifying ==
    {j \in DOMAIN symbols :
        /\ j # Val(nnArgs.idx)
        /\ IsNone(nnArgs.skip) \/ ~(symbols[j] \in Range(Val(nnArgs.skip)))}

NoDuplicates(r) == \A a, b \in DOMAIN r : a # b => r[a] # r[b]

\* the atoms r are listed by ascending distance to the central atom
AscendingDistance(r) ==
    \A k \in DOMAIN r : k + 1 \in DOMAIN r =>
        dists[r[k]][Val(nnArgs.idx)] <= dists[r[k + 1]][Val(nnArgs.idx)]

\* C6: num and cutoff are mutually exclusive and one of them is required:
\* the call fails with an error when both are given and when neither is
\* given, before any neighbor list is computed.
C6_NumXorCutoffRequired ==
    (NNCalled /\ IsNone(nnArgs.num) = IsNone(nnArgs.cutoff)) =>
        /\ pc = "raised"
        /\ nnErr \in {"AssertionError", "TypeError"}
        /\ ~nnRet.computed

C6_Witness ==
    /\ NNCalled
    /\ IdxGiven(nnArgs.idx)
    /\ IsNone(nnArgs.num) /\ IsNone(nnArgs.cutoff)
    /\ pc = "raised" /\ nnErr = "TypeError"

\* C7: with num given the call returns, without error, the min(num, q)
\* qualifying atoms nearest to idx in ascending distance order, q being the
\* number of atoms other than idx whose species is not in skip; idx itself is
\* never returned and no nearer qualifying atom is left out.
C7_NumReturnsNearest ==
    (NNCalled /\ IdxGiven(nnArgs.idx) /\ ~IsNone(nnArgs.num) /\ IsNone(nnArgs.cutoff)) =>
        /\ pc = "returned"
        /\ LET r == nnRet.ret_idx
               i == Val(nnArgs.idx)
           IN  /\ Len(r) = Min(Val(nnArgs.num), Cardinality(Qualifying))
               /\ Range(r) \subseteq Qualifying
               /\ NoDuplicates(r)
               /\ nnArgs.sort => AscendingDistance(r)
               /\ \A j \in Qualifying \ Range(r) :
                    \A k \in Range(r) : dists[k][i] <= dists[j][i]

\* C8: with cutoff given the call returns exactly the atoms j with
\* 0 < dists[j, idx] < cutoff whose species is not in skip, in ascending
\* distance order; atoms at distance 0 and at distance cutoff are left out.
C8_CutoffReturnsOpenBall ==
    (NNCalled /\ IdxGiven(nnArgs.idx) /\ IsNone(nnArgs.num) /\ ~IsNone(nnArgs.cutoff)) =>
        /\ pc = "returned"
        /\ LET r == nnRet.ret_idx
               i == Val(nnArgs.idx)
           IN  /\ Range(r) =
                    {j \in DOMAIN symbols :
                        /\ 0 < dists[j][i] /\ dists[j][i] < Val(nnArgs.cutoff)
                        /\ IsNone(nnArgs.skip)
                            \/ ~(symbols[j] \in Range(Val(nnArgs.skip)))}
               /\ NoDuplicates(r)
               /\ nnArgs.sort => AscendingDistance(r)

C8_Witness ==
    /\ NNReturned
    /\ IsNone(nnArgs.num) /\ ~IsNone(nnArgs.cutoff) /\ ~IsNone(nnArgs.skip)
    /\ nnArgs.sort
    /\ Len(nnRet.ret_idx) >= 1
    /\ LET i == Val(nnArgs.idx)
       IN  /\ \E j \in Qualifying : dists[j][i] = 0 \/ dists[j][i] = Val(nnArgs.cutoff)
           /\ \A j \in Range(nnRet.ret_idx) :
                0 < dists[j][i] /\ dists[j][i] < Val(nnArgs.cutoff)

\* C9: with sort=False the call returns the same set of indices as with
\* sort=True, in ascending atom-index order; with fullout=True the k-th
\* returned distance is dists[ret_idx[k], idx] in both orderings.
C9_UnsortedSameSetIndexOrder ==
    NNReturned =>
        LET r == nnRet.ret_idx
            i == Val(nnArgs.idx)
        IN  /\ nnArgs.sort => r = nnSorted
            /\ ~nnArgs.sort =>
                /\ Range(r) = Range(nnSorted)
                /\ Len(r) = Len(nnSorted)
                /\ \A k \in DOMAIN r : k + 1 \in DOMAIN r => r[k] < r[k + 1]
            /\ nnArgs.fullout =>
                /\ Len(nnRet.dist) = Len(r)
                /\ \A k \in DOMAIN r : nnRet.dist[k] = dists[r[k]][i]

C9_Witness ==
    /\ NNReturned
    /\ ~nnArgs.sort /\ nnArgs.fullout
    /\ Len(nnRet.ret_idx) >= 2
    /\ nnRet.ret_idx # nnSorted
    /\ nnRet.dist[1] > nnRet.dist[2]

\* -------------------------------------------------------------------- rpdf
\* rpdf(trajs, dr, rmax, amask, tmask=None, dmask=None, pbc, norm_vmd,
\* maxmem) for one trajectory (both selections are taken from it), a
\* numeric rmax and no time or distance mask.  Lengths (dr, rmax, the bin
\* edges) are in units of a quarter, squared distances in units of 1/16,
\* maxmem in bytes (1e-9 GB).

\* an entry of amask: slice(None) or a species name
Masks == {"all"} \cup Species

\* amask[ii] = sy == amask[ii] for a string entry, everything for slice(None)
AtomMask(sy, m) == [i \in DOMAIN sy |-> m = "all" \/ sy[i] = m]

\* the atoms picked by coords_frac[tmask, amask[ii], :]
SelectAtoms(sy, m) == Compress([i \in DOMAIN sy |-> i], AtomMask(sy, m))

\* ceil(a / b) for b > 0
CeilDiv(a, b) == (a + b - 1) \div b

\* len(bins) for bins = np.arange(0, rmax + dr, dr), dr # 0: the length of
\* np.arange is ceil((stop - start) / step), or 0 if that is negative
LenBins(rmax, dr) ==
    LET n == IF dr > 0 THEN CeilDiv(rmax + dr, dr) ELSE CeilDiv(-(rmax + dr), -dr)
    IN  IF n > 0 THEN n ELSE 0

\* len(bins) - 1
NumBins(rmax, dr) == LenBins(rmax, dr) - 1

\* the time steps picked by coords_frac[tmask, ...]: all of them for
\* tmask = slice(None), none for an empty slice
TimeSteps(tmask, nstep) == IF tmask = "all" THEN nstep ELSE 0

\* bins[k - 1]: the lower edge of the k-th bin (k = 1..nbins + 1)
Edge(k, dr) == (k - 1) * dr

\* nstep * natoms0 * natoms1 * 24.0, the estimate in bytes
MemEstimate(nstep, natoms0, natoms1) == nstep * natoms0 * natoms1 * BytesPerVector

\* the estimate of a single time step compared with the budget
MemExceededOneStep(nstep, natoms0, natoms1, maxmem) ==
    MemEstimate(1, natoms0, natoms1) > maxmem

\* nstep * natoms0 * natoms1 * 24.0 / 1e9 > maxmem
MemExceeded(nstep, natoms0, natoms1, maxmem) ==
    MemEstimate(nstep, natoms0, natoms1) > maxmem

\* squared length of rij for one step: sij = clst[0][:,:,None,:] -
\* clst[1][:,None,:,:], min_image_convention if pbc, reshape to
\* natoms0*natoms1 rows (row (a-1)*natoms1 + b), np.dot(sij, cell)
PairDistsq(frame0, frame1, c, sel0, sel1, pbc) ==
    [q \in 1..(Len(sel0) * Len(sel1)) |->
        LET a == sel0[((q - 1) \div Len(sel1)) + 1]
            b == sel1[((q - 1) % Len(sel1)) + 1]
            s == [k \in XYZ |-> frame0[a][k] - frame1[b][k]]
        IN  SumSq(DotCell(IF pbc THEN MicValue(s) ELSE s, c))]

\* len(np.nonzero(dists_all[idx] < 1e-15)[0]) if norm_vmd else 0
Dups(dsq, norm_vmd) ==
    IF norm_vmd THEN Cardinality({q \in DOMAIN dsq : dsq[q] = 0}) ELSE 0

\* dists_all[dists_all >= rmax] = 0.0
ZeroBeyond(dsq, rmax) ==
    [q \in DOMAIN dsq |-> IF dsq[q] >= rmax * rmax THEN 0 ELSE dsq[q]]

\* np.histogram(dists, bins=bins)[0]: half-open bins, the last one closed
Histogram(dsq, nbins, dr) ==
    [k \in 1..nbins |->
        Cardinality({q \in DOMAIN dsq :
            /\ Edge(k, dr) * Edge(k, dr) <= dsq[q]
            /\ \/ dsq[q] < Edge(k + 1, dr) * Edge(k + 1, dr)
               \/ k = nbins /\ dsq[q] = Edge(k + 1, dr) * Edge(k + 1, dr)})]

\* if bins[0] == 0.0: hist[0] = 0.0   (bins[0] is always 0 here)
ZeroFirstBin(hist) == [k \in DOMAIN hist |-> IF k = 1 THEN 0 ELSE hist[k]]

\* lines 1717-1721: the histogram of one time step as it is accumulated;
\* dups[idx] is not used here (hist[0] -= dups[idx] is commented out)
StepHistLessDups(dsq, nbins, dr, dups_t) ==
    LET h == Histogram(dsq, nbins, dr)
    IN  [k \in DOMAIN h |-> IF k = 1 THEN h[k] - dups_t ELSE h[k]]

StepHist(dsq, nbins, dr, dups_t) == ZeroFirstBin(Histogram(dsq, nbins, dr))

\* np.cumsum(hist)
RECURSIVE SumTo(_, _)
SumTo(h, k) == IF k = 0 THEN 0 ELSE h[k] + SumTo(h, k - 1)
\* the counts themselves, not accumulated over the bins
NoCumsum(h) == h

Cumsum(h) == [k \in DOMAIN h |-> SumTo(h, k)]

\* lines 1680-1722 for one time step and the selections s0, s1: the
\* histogram that is accumulated and the divisor natoms0 * natoms1 - dups[idx]
StepTerm(frame0, frame1, c, s0, s1, args, nbins) ==
    LET d == PairDistsq(frame0, frame1, c, s0, s1, args.pbc)
        dups_t == Dups(d, args.norm_vmd)
    IN  [hist |-> StepHist(ZeroBeyond(d, args.rmax), nbins, args.dr, dups_t),
         den |-> Len(s0) * Len(s1) - dups_t]

\* if len(trajs) == 1: trajs *= 2
Doubled(ts) == IF Len(ts) = 1 THEN ts \o ts ELSE ts

\* an entry of the amask list of the caller: slice(None), a species name,
\* or the bool array that replaces a name
MaskEntry(m) ==
    [kind |-> IF m = "all" THEN "slice" ELSE "str", name |-> m, mask |-> <<>>]

\* for ii in range(len(amask)): if type(amask[ii]) == type('x'):
\*     amask[ii] = sy == amask[ii]
ReplaceNames(items, sy) ==
    [k \in DOMAIN items |->
        IF items[k].kind = "str"
        THEN [kind |-> "array", name |-> "", mask |-> AtomMask(sy, items[k].name)]
        ELSE items[k]]

\* the object passed as trajs: a list, or a single Trajectory (isList
\* FALSE, which rpdf wraps into a list of its own)
PassedTrajs(isList, ts) == [isList |-> isList, items |-> ts, items0 |-> ts]

\* the object passed as amask: a list, or None (given FALSE, for which
\* rpdf makes a list of its own)
PassedAmask(given, am) ==
    LET items == [k \in DOMAIN am |-> MaskEntry(am[k])]
    IN  [given |-> given, items |-> IF given THEN items ELSE <<>>,
         items0 |-> IF given THEN items ELSE <<>>]

\* the cell check left out
FixedCellUnchecked(tr) == TRUE

\* np.abs(cell - cell[0,...]).sum() == 0.0 for the cell array of a trajectory
FixedCell(tr) == \A t \in DOMAIN tr.cell : tr.cell[t] = tr.cell[1]

\* the asserts of lines 1635-1644 on the list of two trajectories
ValidTrajs(ts) ==
    /\ Len(ts) = 2
    /\ ts[1].symbols = ts[2].symbols
    /\ ts[1].nstep = ts[2].nstep
    /\ ts[1].cell = ts[2].cell
    /\ FixedCell(ts[1])

\* what the rest of the call reads: symbols, cell[0,...] and nstep of
\* trajs[0], coords_frac of trajs[0] and of trajs[1]
TrajView(ts) ==
    [symbols |-> ts[1].symbols,
     coords_frac |-> ts[1].coords_frac, coords_frac1 |-> ts[2].coords_frac,
     cell |-> ts[1].cell[1], nstep |-> ts[1].nstep]

NoTraj ==
    [symbols |-> <<>>, coords_frac |-> <<>>, coords_frac1 |-> <<>>,
     cell |-> <<>>, nstep |-> 0]

\* locals of a call before line 1624
RpLoc0 ==
    [sel0 |-> <<>>, sel1 |-> <<>>, natoms0 |-> 0, natoms1 |-> 0, nstep |-> 0,
     nbins |-> 0, have_dists |-> FALSE, dists_all |-> <<>>, dups |-> <<>>,
     idx |-> 0, hist_sum |-> <<>>, number_integral_sum |-> <<>>, err |-> ""]

RpOut0 == [returned |-> FALSE, rad2 |-> <<>>, g |-> <<>>, num_int |-> <<>>]

\* the trajectories rpdf is called with: 1..MaxAtoms atoms of two species,
\* 1..MaxSteps steps, each step one of two arrangements of the atoms: a row
\* of distinct positions along x, or positions in the y-z plane in which
\* the atoms two places apart coincide
Frame(n, f) ==
    [i \in 1..n |->
        IF f = 0 THEN <<(i - 1) % One, 0, 0>>
        ELSE <<0, (2 * (i - 1)) % One, (i - 1) % 2>>]

RpCells ==
    { <<<<2, 0, 0>>, <<0, 2, 0>>, <<0, 0, 2>>>>,
      <<<<2, 0, 0>>, <<1, 2, 0>>, <<1, 1, 2>>>> }

\* the pairs (dr, rmax) of the calls, in quarters
DrRmax == {<<2, 4>>, <<3, 7>>}

MaxMemLevels ==
    {BytesPerVector * k : k \in {1, MaxAtoms, MaxSteps * MaxAtoms * MaxAtoms}}

InitRpdf ==
    /\ op = "rpdf" /\ pc = "called"
    /\ \E n \in 1..MaxAtoms, ns \in 1..MaxSteps :
        \E sy \in [1..n -> Species], fs \in [1..ns -> {0, 1}], c \in RpCells :
            trajs = << [symbols |-> sy,
                        coords_frac |-> [t \in 1..ns |-> Frame(n, fs[t])],
                        cell |-> [t \in 1..ns |-> c], nstep |-> ns] >>
    /\ traj = NoTraj
    /\ \E m0, m1 \in Masks, dm \in DrRmax, mm \in MaxMemLevels, pb, vmd \in BOOLEAN :
        rpArgs = [amask |-> <<m0, m1>>, tmask |-> "all", dr |-> dm[1],
                  rmax |-> dm[2], pbc |-> pb, norm_vmd |-> vmd, maxmem |-> mm]
    /\ rpLoc = RpLoc0
    /\ rpOut = RpOut0
    /\ IdleMIC
    /\ IdleDist
    /\ IdleNN
    /\ IdleScell
    /\ IdleVolume
    /\ IdleWrap
    /\ IdleIter
    /\ IdleRandom
    /\ IdleUnits
    /\ IdleMICFloat
    /\ rcTrajs = PassedTrajs(Len(trajs) = 2, trajs)
    /\ rcAmask = PassedAmask(TRUE, rpArgs.amask)

\* lines 1628-1644: a single trajectory is used twice; the two must agree
\* in symbols, nstep and cell, and the cell of the first must not vary
\* with time.  Failing asserts raise AssertionError.
RpdfValidate ==
    /\ op = "rpdf" /\ pc = "called"
    /\ LET ok == ValidTrajs(Doubled(trajs))
       IN  /\ pc' = IF ok THEN "ready" ELSE "raised"
           /\ traj' = IF ok THEN TrajView(Doubled(trajs)) ELSE traj
           /\ rpLoc' = [rpLoc EXCEPT !.err = IF ok THEN "" ELSE "AssertionError"]
    /\ rcTrajs' = IF rcTrajs.isList THEN [rcTrajs EXCEPT !.items = Doubled(@)]
                  ELSE rcTrajs
    /\ rcAmask' = IF rcAmask.given THEN [rcAmask EXCEPT !.items = Doubled(@)]
                  ELSE rcAmask
    /\ UNCHANGED <<op, trajs, rpArgs, rpOut>>
    /\ UNCHANGED <<micVars, distVars, nnVars, scVars, volVars, wrVars, itVars, rsVars, unVars, mfVars>>

\* lines 1624-1672: masks, selections, natoms0, natoms1, nstep, bins;
\* np.arange raises ZeroDivisionError for a step of 0
RpdfSelect ==
    /\ op = "rpdf" /\ pc = "ready"
    /\ pc' = IF rpArgs.dr = 0 THEN "raised" ELSE "selected"
    /\ LET s0 == SelectAtoms(traj.symbols, rpArgs.amask[1])
           s1 == SelectAtoms(traj.symbols, rpArgs.amask[2])
       IN  rpLoc' = [rpLoc EXCEPT !.sel0 = s0, !.sel1 = s1,
                                  !.natoms0 = Len(s0), !.natoms1 = Len(s1),
                                  !.nstep = TimeSteps(rpArgs.tmask, traj.nstep),
                                  !.nbins = IF rpArgs.dr = 0 THEN 0
                                            ELSE NumBins(rpArgs.rmax, rpArgs.dr),
                                  !.err = IF rpArgs.dr = 0
                                          THEN "ZeroDivisionError" ELSE ""]
    /\ rcAmask' = IF rcAmask.given
                  THEN [rcAmask EXCEPT !.items = ReplaceNames(@, traj.symbols)]
                  ELSE rcAmask
    /\ UNCHANGED <<op, trajs, traj, rpArgs, rpOut, rcTrajs>>
    /\ UNCHANGED <<micVars, distVars, nnVars, scVars, volVars, wrVars, itVars, rsVars, unVars, mfVars>>

\* lines 1674-1676: the memory check
RpdfAdmit ==
    /\ op = "rpdf" /\ pc = "selected"
    /\ LET over == MemExceeded(rpLoc.nstep, rpLoc.natoms0, rpLoc.natoms1,
                               rpArgs.maxmem)
       IN  /\ pc' = IF over THEN "raised" ELSE "admitted"
           /\ rpLoc' = [rpLoc EXCEPT !.err = IF over THEN "StandardError" ELSE ""]
    /\ UNCHANGED <<op, trajs, traj, rpArgs, rpOut>>
    /\ UNCHANGED <<micVars, distVars, nnVars, scVars, volVars, wrVars, itVars, rsVars, unVars, mfVars, rcVars>>

\* lines 1680-1710: dists_all, dups, the cut at rmax, the zeroed sums;
\* np.zeros(len(bins) - 1) raises ValueError for empty bins (length -1)
RpdfDistances ==
    /\ op = "rpdf" /\ pc = "admitted"
    /\ pc' = IF rpLoc.nbins < 0 THEN "raised" ELSE "looping"
    /\ LET d == [t \in 1..rpLoc.nstep |->
                    PairDistsq(traj.coords_frac[t], traj.coords_frac1[t], traj.cell,
                               rpLoc.sel0, rpLoc.sel1, rpArgs.pbc)]
       IN  rpLoc' = [rpLoc EXCEPT
                !.have_dists = TRUE,
                !.dups = [t \in 1..rpLoc.nstep |-> Dups(d[t], rpArgs.norm_vmd)],
                !.dists_all = [t \in 1..rpLoc.nstep |-> ZeroBeyond(d[t], rpArgs.rmax)],
                !.hist_sum = <<>>,
                !.number_integral_sum = [k \in 1..rpLoc.nbins |-> 0],
                !.err = IF rpLoc.nbins < 0 THEN "ValueError" ELSE ""]
    /\ UNCHANGED <<op, trajs, traj, rpArgs, rpOut>>
    /\ UNCHANGED <<micVars, distVars, nnVars, scVars, volVars, wrVars, itVars, rsVars, unVars, mfVars, rcVars>>

\* lines 1713-1730: one pass of the loop over the time steps.  hist_sum
\* keeps the terms hist * norm_fac of the sum as pairs (hist, natoms0 *
\* natoms1 - dups[idx]); number_integral_sum keeps the sum of cumsum(hist),
\* the common divisor natoms0 applied on return.
RpdfStep ==
    /\ op = "rpdf" /\ pc = "looping"
    /\ rpLoc.idx < rpLoc.nstep
    /\ rpLoc.nbins >= 1 /\ rpArgs.dr > 0
    /\ LET t == rpLoc.idx + 1
           hist == StepHist(rpLoc.dists_all[t], rpLoc.nbins, rpArgs.dr, rpLoc.dups[t])
           cs == Cumsum(hist)
       IN  rpLoc' = [rpLoc EXCEPT
                !.idx = t,
                !.hist_sum = Append(rpLoc.hist_sum,
                    [hist |-> hist,
                     den |-> rpLoc.natoms0 * rpLoc.natoms1 - rpLoc.dups[t]]),
                !.number_integral_sum =
                    [k \in 1..rpLoc.nbins |-> rpLoc.number_integral_sum[k] + cs[k]]]
    /\ UNCHANGED <<op, pc, trajs, traj, rpArgs, rpOut>>
    /\ UNCHANGED <<micVars, distVars, nnVars, scVars, volVars, wrVars, itVars, rsVars, unVars, mfVars, rcVars>>

\* lines 1717-1721 failing in a pass of the loop: np.histogram raises
\* ValueError for decreasing bins (dr < 0); for a single edge (no bin) it
\* returns an empty hist and hist[0] = 0.0 raises IndexError
RpdfStepRaise ==
    /\ op = "rpdf" /\ pc = "looping"
    /\ rpLoc.idx < rpLoc.nstep
    /\ rpLoc.nbins = 0 \/ rpArgs.dr < 0
    /\ pc' = "raised"
    /\ rpLoc' = [rpLoc EXCEPT !.err = IF rpLoc.nbins = 0 THEN "IndexError"
                                      ELSE "ValueError"]
    /\ UNCHANGED <<op, trajs, traj, rpArgs, rpOut>>
    /\ UNCHANGED <<micVars, distVars, nnVars, scVars, volVars, wrVars, itVars, rsVars, unVars, mfVars, rcVars>>

\* lines 1731-1735: out[:,0] = rad (kept doubled: 2*rad = bins[k-1] +
\* bins[k]), out[:,1] = hist_sum / nstep, out[:,2] = number_integral_sum / nstep
RpdfReturn ==
    /\ op = "rpdf" /\ pc = "looping"
    /\ rpLoc.idx = rpLoc.nstep
    /\ pc' = "returned"
    /\ rpOut' = [returned |-> TRUE,
                 rad2 |-> [k \in 1..rpLoc.nbins |-> Edge(k, rpArgs.dr) + Edge(k + 1, rpArgs.dr)],
                 g |-> [terms |-> rpLoc.hist_sum, nstep |-> rpLoc.nstep],
                 num_int |-> [sum |-> rpLoc.number_integral_sum,
                              den |-> rpLoc.natoms0 * rpLoc.nstep]]
    /\ UNCHANGED <<op, trajs, traj, rpArgs, rpLoc>>
    /\ UNCHANGED <<micVars, distVars, nnVars, scVars, volVars, wrVars, itVars, rsVars, unVars, mfVars, rcVars>>

NextRpdf ==
    \/ RpdfValidate
    \/ RpdfSelect
    \/ RpdfAdmit
    \/ RpdfDistances
    \/ RpdfStep
    \/ RpdfReturn

SpecRpdf == InitRpdf /\ [][NextRpdf]_vars

\* ---- rpdf called with any sign of dr and rmax and with a time mask
\* dr and rmax of these calls, in quarters
DrValues == {-2, 0, 2}
RmaxValues == {-4, -1, 0, 4}

\* tmask = None (slice(None), every step) or an empty slice such as
\* slice(0, 0)
TMasks == {"all", "none"}

InitRpdfArgs ==
    /\ op = "rpdf" /\ pc = "called"
    /\ \E n \in 1..MaxAtoms, ns \in 1..MaxSteps :
        \E sy \in [1..n -> Species] :
            trajs = << [symbols |-> sy,
                        coords_frac |-> [t \in 1..ns |-> Frame(n, 0)],
                        cell |-> [t \in 1..ns |->
                                    <<<<2, 0, 0>>, <<0, 2, 0>>, <<0, 0, 2>>>>],
                        nstep |-> ns] >>
    /\ traj = NoTraj
    /\ \E m1 \in Masks, tm \in TMasks, d \in DrValues, rm \in RmaxValues,
          mm \in MaxMemLevels, vmd \in BOOLEAN :
        rpArgs = [amask |-> <<"all", m1>>, tmask |-> tm, dr |-> d, rmax |-> rm,
                  pbc |-> TRUE, norm_vmd |-> vmd, maxmem |-> mm]
    /\ rpLoc = RpLoc0
    /\ rpOut = RpOut0
    /\ IdleMIC
    /\ IdleDist
    /\ IdleNN
    /\ IdleScell
    /\ IdleVolume
    /\ IdleWrap
    /\ IdleIter
    /\ IdleRandom
    /\ IdleUnits
    /\ IdleMICFloat
    /\ rcTrajs = PassedTrajs(Len(trajs) = 2, trajs)
    /\ rcAmask = PassedAmask(TRUE, rpArgs.amask)

NextRpdfArgs ==
    \/ RpdfValidate
    \/ RpdfSelect
    \/ RpdfAdmit
    \/ RpdfDistances
    \/ RpdfStep
    \/ RpdfStepRaise
    \/ RpdfReturn

SpecRpdfArgs == InitRpdfArgs /\ [][NextRpdfArgs]_vars

\* ---- rpdf called with one or two trajectories, fixed or variable cell
\* trajectories of one or two atoms, 1..MaxSteps steps, the atoms in one
\* of the two arrangements, every step with one of the two cells
PairTrajs ==
    UNION { { [symbols |-> sy,
               coords_frac |-> [t \in 1..ns |-> Frame(n, f)],
               cell |-> cs, nstep |-> ns] :
                sy \in [1..n -> Species], f \in {0, 1}, cs \in [1..ns -> RpCells] } :
            n \in {1, 2}, ns \in 1..MaxSteps }

InitRpdfPair ==
    /\ op = "rpdf" /\ pc = "called"
    /\ \/ \E t0 \in PairTrajs : trajs = <<t0>>
       \/ \E t0, t1 \in PairTrajs : trajs = <<t0, t1>>
    /\ traj = NoTraj
    /\ \E am \in {<<"all", "all">>, <<"A", "B">>}, mm \in MaxMemLevels :
        rpArgs = [amask |-> am, tmask |-> "all", dr |-> 2, rmax |-> 4,
                  pbc |-> TRUE, norm_vmd |-> FALSE, maxmem |-> mm]
    /\ rpLoc = RpLoc0
    /\ rpOut = RpOut0
    /\ IdleMIC
    /\ IdleDist
    /\ IdleNN
    /\ IdleScell
    /\ IdleVolume
    /\ IdleWrap
    /\ IdleIter
    /\ IdleRandom
    /\ IdleUnits
    /\ IdleMICFloat
    /\ rcTrajs = PassedTrajs(Len(trajs) = 2, trajs)
    /\ rcAmask = PassedAmask(TRUE, rpArgs.amask)

SpecRpdfPair == InitRpdfPair /\ [][NextRpdf]_vars

\* --------------------------------------------------------------- claim C10
RpdfPastCheck ==
    op = "rpdf" /\ pc \in {"raised", "admitted", "looping", "returned"}

\* C10: the memory check precedes the displacement tensor: whenever
\* nstep * natoms0 * natoms1 * 24 / 1e9 exceeds maxmem the call raises, no
\* distance is computed, no time step is accumulated and nothing is
\* returned; whenever the estimate does not exceed maxmem the check does
\* not raise.
C10_MemoryCheckBeforeDistances ==
    RpdfPastCheck =>
        LET over == rpLoc.nstep * rpLoc.natoms0 * rpLoc.natoms1 * BytesPerVector
                        > rpArgs.maxmem
        IN  /\ over =>
                /\ pc = "raised"
                /\ ~rpLoc.have_dists /\ rpLoc.dists_all = <<>>
                /\ rpLoc.idx = 0 /\ rpLoc.hist_sum = <<>>
                /\ ~rpOut.returned
            /\ ~over => pc # "raised"
            /\ (op = "rpdf" /\ rpLoc.have_dists) => ~over

C10_Witness ==
    /\ op = "rpdf" /\ pc = "raised"
    /\ rpLoc.nstep >= 2
    /\ (rpLoc.nstep - 1) * rpLoc.natoms0 * rpLoc.natoms1 * BytesPerVector
            <= rpArgs.maxmem
    /\ ~rpLoc.have_dists /\ ~rpOut.returned

\* --------------------------------------------------------- claims C11-C17
\* the squared pair distances of time step t, before the cut at rmax
TrueDistsq(t) ==
    PairDistsq(traj.coords_frac[t], traj.coords_frac1[t], traj.cell,
               rpLoc.sel0, rpLoc.sel1, rpArgs.pbc)

\* the pairs of step t whose distance d has 0 < d < rmax and lies in bin k
PairsInBin(t, k) ==
    {q \in DOMAIN TrueDistsq(t) :
        LET d2 == TrueDistsq(t)[q]
        IN  /\ 0 < d2 /\ d2 < rpArgs.rmax * rpArgs.rmax
            /\ Edge(k, rpArgs.dr) * Edge(k, rpArgs.dr) <= d2
            /\ d2 < Edge(k + 1, rpArgs.dr) * Edge(k + 1, rpArgs.dr)}

RpdfAccumulating == op = "rpdf" /\ pc \in {"looping", "returned"}

\* C11: only distances that are exactly zero or >= rmax are left out of
\* the histogram: in the histogram of every accumulated time step, every
\* bin k (the first one included) counts exactly the pairs with
\* 0 < d < rmax that lie in that bin.
C11_OnlyZeroAndBeyondExcluded ==
    RpdfAccumulating =>
        \A t \in 1..rpLoc.idx : \A k \in 1..rpLoc.nbins :
            rpLoc.hist_sum[t].hist[k] = Cardinality(PairsInBin(t, k))

RpdfReturned == op = "rpdf" /\ pc = "returned"

\* sum over the steps 1..t of the counts of the bins 1..k
RECURSIVE CountsUpTo(_, _)
CountsUpTo(k, t) ==
    IF t = 0 THEN 0 ELSE SumTo(rpLoc.hist_sum[t].hist, k) + CountsUpTo(k, t - 1)

RmaxCoversAll ==
    \A t \in 1..rpLoc.nstep : \A q \in DOMAIN TrueDistsq(t) :
        TrueDistsq(t)[q] < rpArgs.rmax * rpArgs.rmax

\* the selected atoms sit at pairwise distinct positions in every step
DistinctPositions(sel) ==
    \A t \in 1..rpLoc.nstep : \A a, b \in DOMAIN sel :
        a # b => traj.coords_frac[t][sel[a]] # traj.coords_frac[t][sel[b]]

\* C13: for a self-correlated selection of n atoms at pairwise distinct
\* positions, with pbc and rmax larger than every pair distance, the last
\* value of the returned number integral is n - 1.
C13_SelfCorrelationConvergesToNMinus1 ==
    ( /\ RpdfReturned
      /\ rpArgs.amask[1] = rpArgs.amask[2]
      /\ rpArgs.pbc
      /\ rpLoc.natoms0 >= 1 /\ rpLoc.nbins >= 1
      /\ RmaxCoversAll
      /\ DistinctPositions(rpLoc.sel0) ) =>
        rpOut.num_int.sum[rpLoc.nbins] =
            (rpLoc.natoms0 - 1) * rpOut.num_int.den

\* C14: for two disjoint selections and rmax larger than every pair
\* distance, the last value of the returned number integral is the size
\* of the second selection: B for the order (A, B), A for the order (B, A).
C14_TwoSelectionsConvergeToSecondSize ==
    ( /\ RpdfReturned
      /\ Range(rpLoc.sel0) \cap Range(rpLoc.sel1) = {}
      /\ rpLoc.natoms0 >= 1 /\ rpLoc.natoms1 >= 1 /\ rpLoc.nbins >= 1
      /\ RmaxCoversAll ) =>
        rpOut.num_int.sum[rpLoc.nbins] = rpLoc.natoms1 * rpOut.num_int.den

\* the product of the divisors of all steps but step t
RECURSIVE DenProductBut(_, _, _)
DenProductBut(terms, t, u) ==
    IF u = 0 THEN 1
    ELSE (IF u = t THEN 1 ELSE terms[u].den) * DenProductBut(terms, t, u - 1)

\* sum over the steps 1..t of hist[k] / den, brought to the common
\* denominator (the product of all divisors): its numerator
RECURSIVE GNumerator(_, _, _)
GNumerator(terms, k, t) ==
    IF t = 0 THEN 0
    ELSE terms[t].hist[k] * DenProductBut(terms, t, Len(terms))
            + GNumerator(terms, k, t - 1)

\* the terms of g(r) of the call with the two selections exchanged
SwappedTerms ==
    [t \in 1..rpLoc.nstep |->
        StepTerm(traj.coords_frac1[t], traj.coords_frac[t], traj.cell,
                 rpLoc.sel1, rpLoc.sel0,
                 rpArgs, rpLoc.nbins)]

\* C15: g(r) does not depend on the order of the two selections: the call
\* with amask = [m1, m0] has in every bin the same g(r) as the call with
\* amask = [m0, m1], for every cell and pbc setting (same divisors in
\* every step, same sum of hist / divisor over the steps; the volume
\* factor and the step count are the same in both calls).
C15_GIndependentOfSelectionOrder ==
    ( /\ RpdfReturned
      /\ \A t \in 1..rpLoc.nstep : rpOut.g.terms[t].den > 0 ) =>
        /\ \A t \in 1..rpLoc.nstep : SwappedTerms[t].den = rpOut.g.terms[t].den
        /\ \A k \in 1..rpLoc.nbins :
                GNumerator(SwappedTerms, k, rpLoc.nstep)
                    = GNumerator(rpOut.g.terms, k, rpLoc.nstep)

\* the terms of the call with the opposite norm_vmd
FlippedVmdTerms ==
    [t \in 1..rpLoc.nstep |->
        StepTerm(traj.coords_frac[t], traj.coords_frac1[t], traj.cell,
                 rpLoc.sel0, rpLoc.sel1,
                 [rpArgs EXCEPT !.norm_vmd = ~rpArgs.norm_vmd], rpLoc.nbins)]

RECURSIVE FlippedCountsUpTo(_, _)
FlippedCountsUpTo(k, t) ==
    IF t = 0 THEN 0
    ELSE SumTo(FlippedVmdTerms[t].hist, k) + FlippedCountsUpTo(k, t - 1)

\* C16: norm_vmd affects only g(r): the radius column and the number
\* integral column of the returned array are those of the call with the
\* opposite norm_vmd.
C16_NormVmdAffectsOnlyG ==
    RpdfReturned =>
        /\ rpOut.rad2 = [k \in 1..rpLoc.nbins |-> (2 * k - 1) * rpArgs.dr]
        /\ rpOut.num_int.den = rpLoc.natoms0 * rpLoc.nstep
        /\ \A k \in 1..rpLoc.nbins :
                rpOut.num_int.sum[k] = FlippedCountsUpTo(k, rpLoc.nstep)

C16_Witness ==
    /\ RpdfReturned
    /\ rpArgs.norm_vmd
    /\ \E t \in 1..rpLoc.nstep :
        /\ rpLoc.dups[t] > 0
        /\ rpOut.g.terms[t].den # FlippedVmdTerms[t].den
        /\ \E k \in 1..rpLoc.nbins : rpOut.g.terms[t].hist[k] > 0
    /\ rpOut.num_int.sum[rpLoc.nbins] > 0

\* the number of pairs of the two selections at distance zero in step t
CoincidentPairs(t) ==
    Cardinality({q \in DOMAIN TrueDistsq(t) : TrueDistsq(t)[q] = 0})

\* C17: with norm_vmd=True the histogram of every time step is divided by
\* n0 * n1 - duplicate_count, duplicate_count being the number of
\* coincident pairs of the first time step, the same for all steps.
C17_DuplicateCountOfFirstStep ==
    (RpdfAccumulating /\ rpArgs.norm_vmd) =>
        \A t \in 1..rpLoc.idx :
            rpLoc.hist_sum[t].den =
                rpLoc.natoms0 * rpLoc.natoms1 - CoincidentPairs(1)

\* ---------------------------------------------------------------- claim C18
\* C18: a call with dr <= 0 or a numeric rmax <= 0 never returns a result
\* array (it ends with an error).
C18_NonPositiveDrRmaxRejected ==
    (op = "rpdf" /\ (rpArgs.dr <= 0 \/ rpArgs.rmax <= 0)) => ~rpOut.returned

\* ---------------------------------------------------------------- claim C19
\* the two trajectories of the call (a single one is used for both)
Traj0 == trajs[1]
Traj1 == trajs[Len(trajs)]

TrajsDiffer ==
    \/ Traj0.symbols # Traj1.symbols
    \/ Traj0.nstep # Traj1.nstep
    \/ Traj0.cell # Traj1.cell

VariableCell == \E t \in DOMAIN Traj0.cell : Traj0.cell[t] # Traj0.cell[1]

\* C19: the call fails before any distance is computed whenever the two
\* trajectories differ in species list, number of steps or cell, or the
\* cell of the first trajectory varies with time; when all of these agree
\* the validation raises nothing.
C19_ValidationOfTrajectories ==
    (op = "rpdf" /\ pc # "called") =>
        /\ (TrajsDiffer \/ VariableCell) =>
                /\ pc = "raised" /\ rpLoc.err = "AssertionError"
                /\ ~rpLoc.have_dists /\ rpLoc.dists_all = <<>>
                /\ ~rpOut.returned
        /\ ~(TrajsDiffer \/ VariableCell) => rpLoc.err # "AssertionError"

C19_Witness ==
    /\ op = "rpdf" /\ pc = "raised" /\ rpLoc.err = "AssertionError"
    /\ Len(trajs) = 2
    /\ ~TrajsDiffer /\ VariableCell
    /\ Traj0.coords_frac # Traj1.coords_frac

\* ------------------------------------------------------------------- scell
\* the concatenation f[0] \o f[1] \o ... \o f[n-1] of n sequences: what
\* a loop that appends to a list builds
RECURSIVE ConcatSeqs(_, _)
ConcatSeqs(f, n) == IF n = 0 THEN <<>> ELSE ConcatSeqs(f, n - 1) \o f[n - 1]

\* the loops nested the other way round: n1 innermost, n3 outermost
scell_mask_n1_fastest(dim1, dim2, dim3) ==
    ConcatSeqs([n3 \in 0..(dim3 - 1) |->
        ConcatSeqs([n2 \in 0..(dim2 - 1) |->
            ConcatSeqs([n1 \in 0..(dim1 - 1) |-> << <<n1, n2, n3>> >>], dim1)],
            dim2)],
        dim3)

\* scell_mask(dim1, dim2, dim3): three nested loops appending [n1, n2, n3]
scell_mask(dim1, dim2, dim3) ==
    ConcatSeqs([n1 \in 0..(dim1 - 1) |->
        ConcatSeqs([n2 \in 0..(dim2 - 1) |->
            ConcatSeqs([n3 \in 0..(dim3 - 1) |-> << <<n1, n2, n3>> >>], dim3)],
            dim2)],
        dim1)

\* np.tile(a, n): the whole list n times
Tile(a, n) == [k \in 1..(Len(a) * n) |-> a[((k - 1) % Len(a)) + 1]]

\* np.array(a).repeat(n): every element n times in a row
Repeat(a, n) == [k \in 1..(Len(a) * n) |-> a[((k - 1) \div n) + 1]]

\* (coords_frac[:,None] + mask[None,:]).reshape(natoms*nmask, 3): row
\* i*nmask + j is coords_frac[i] + mask[j]; a coordinate is in quarters,
\* an entry of the mask is a whole cell
BroadcastAdd(cf, mask) ==
    [k \in 1..(Len(cf) * Len(mask)) |->
        LET i == ((k - 1) \div Len(mask)) + 1
            j == ((k - 1) % Len(mask)) + 1
        IN  [x \in XYZ |-> cf[i][x] + One * mask[j][x]]]

\* method 2: the loops over iatom and j appending symbols[iatom] and
\* coords_frac[iatom] + mask[j]
LoopSymbols(sy, nmask) ==
    ConcatSeqs([i \in 0..(Len(sy) - 1) |->
        ConcatSeqs([j \in 0..(nmask - 1) |-> <<sy[i + 1]>>], nmask)], Len(sy))

LoopCoords(cf, mask) ==
    ConcatSeqs([i \in 0..(Len(cf) - 1) |->
        ConcatSeqs([j \in 0..(Len(mask) - 1) |->
            << [x \in XYZ |-> cf[i + 1][x] + One * mask[j + 1][x]] >>],
            Len(mask))],
        Len(cf))

\* sc_coords_frac[:,k] /= dims[k]: kept as the fraction <<numerator, dims[k]>>
Rescale(sc, dims) ==
    [k \in DOMAIN sc |-> [x \in XYZ |-> <<sc[k][x], dims[x]>>]]

\* struct.cell * np.asarray(dims)[:,None]: row m times dims[m]
ScaleCell(c, dims) == [m \in XYZ |-> [x \in XYZ |-> c[m][x] * dims[m]]]

NoStruct == [symbols |-> <<>>, coords_frac |-> <<>>, cell |-> <<>>]

\* scell(struct, dims, method): symbols is <<>> for None, <<list>> otherwise
scell(struct, dims, method) ==
    LET mask == scell_mask(dims[1], dims[2], dims[3])
        nmask == Len(mask)
    IN  IF method = 1 THEN
            [err |-> "", mask |-> mask,
             struct |->
                [symbols |-> IF IsNone(struct.symbols) THEN <<>>
                             ELSE Some(Repeat(Val(struct.symbols), nmask)),
                 coords_frac |-> Rescale(BroadcastAdd(struct.coords_frac, mask), dims),
                 cell |-> ScaleCell(struct.cell, dims)]]
        ELSE IF method = 2 THEN
            [err |-> "", mask |-> mask,
             struct |->
                [symbols |-> IF IsNone(struct.symbols) THEN Some(<<>>)
                             ELSE Some(LoopSymbols(Val(struct.symbols), nmask)),
                 coords_frac |-> Rescale(LoopCoords(struct.coords_frac, mask), dims),
                 cell |-> ScaleCell(struct.cell, dims)]]
        ELSE [err |-> "StandardError", mask |-> mask, struct |-> NoStruct]

\* the structures scell is called with: 1..MaxAtoms atoms in one of the
\* two arrangements, with or without symbols, in one of the cells
InitScell ==
    /\ op = "scell" /\ pc = "ready"
    /\ \E n \in 1..MaxAtoms, f \in {0, 1}, c \in Cells :
        \E sy \in {<<>>} \cup {Some(l) : l \in [1..n -> Species]} :
            scStruct = [symbols |-> sy, coords_frac |-> Frame(n, f), cell |-> c]
    /\ \E d \in [XYZ -> 1..MaxDim], m \in {1, 2, 3} :
        scArgs = [dims |-> d, method |-> m]
    /\ scRet = [err |-> "", mask |-> <<>>, struct |-> NoStruct]
    /\ IdleMIC
    /\ IdleDist
    /\ IdleNN
    /\ IdleRpdf
    /\ IdleVolume
    /\ IdleWrap
    /\ IdleIter
    /\ IdleRandom
    /\ IdleUnits
    /\ IdleMICFloat
    /\ IdleCaller

CallScell ==
    /\ op = "scell" /\ pc = "ready"
    /\ scRet' = scell(scStruct, scArgs.dims, scArgs.method)
    /\ pc' = IF scRet'.err = "" THEN "returned" ELSE "raised"
    /\ UNCHANGED <<op, scStruct, scArgs>>
    /\ UNCHANGED <<micVars, distVars, nnVars, rpVars, volVars, wrVars, itVars, rsVars, unVars, mfVars, rcVars>>

NextScell == CallScell

SpecScell == InitScell /\ [][NextScell]_vars

\* ---------------------------------------------------------------- claim C20
ScellReturned == op = "scell" /\ pc = "returned"

\* C20: scell returns nx*ny*nz*natoms atoms with labels and coordinates
\* aligned: the atom at index i*N + j (N = nx*ny*nz) has the species of
\* original atom i and the coordinate (coords_frac[i] + offset_j) divided
\* componentwise by (nx, ny, nz), offset_j the j-th row of scell_mask; the
\* cell rows are the original rows times nx, ny, nz.
C20_ScellAligned ==
    ScellReturned =>
        LET d == scArgs.dims
            N == d[1] * d[2] * d[3]
            natoms == Len(scStruct.coords_frac)
            mask == scell_mask(d[1], d[2], d[3])
            sc == scRet.struct
        IN  /\ Len(mask) = N
            /\ Len(sc.coords_frac) = N * natoms
            /\ ~IsNone(scStruct.symbols) =>
                    /\ ~IsNone(sc.symbols)
                    /\ Len(Val(sc.symbols)) = N * natoms
            /\ \A i \in 0..(natoms - 1) : \A j \in 0..(N - 1) :
                LET k == i * N + j + 1
                IN  /\ ~IsNone(scStruct.symbols) =>
                            Val(sc.symbols)[k] = Val(scStruct.symbols)[i + 1]
                    /\ \A x \in XYZ :
                            sc.coords_frac[k][x][1] * d[x] =
                                (scStruct.coords_frac[i + 1][x] + One * mask[j + 1][x])
                                    * sc.coords_frac[k][x][2]
                    /\ \A x \in XYZ : sc.coords_frac[k][x][2] = d[x]
            /\ \A m \in XYZ : \A x \in XYZ :
                    sc.cell[m][x] = scStruct.cell[m][x] * d[m]

C20_Witness ==
    /\ ScellReturned
    /\ scArgs.method = 1
    /\ scArgs.dims[1] # scArgs.dims[2] /\ scArgs.dims[3] >= 2
    /\ ~IsNone(scStruct.symbols)
    /\ Len(Val(scStruct.symbols)) >= 2
    /\ Val(scStruct.symbols)[1] # Val(scStruct.symbols)[2]
    /\ Val(scRet.struct.symbols)[scArgs.dims[1] * scArgs.dims[2] * scArgs.dims[3]]
            # Val(scRet.struct.symbols)[scArgs.dims[1] * scArgs.dims[2] * scArgs.dims[3] + 1]

\* ---------------------------------------------------------------- claim C21
\* C21: scell_mask(d1, d2, d3) has d1*d2*d3 rows, every offset (i, j, k)
\* with 0 <= i < d1, 0 <= j < d2, 0 <= k < d3 exactly once, in
\* lexicographic order, k varying fastest and i slowest: row
\* i*d2*d3 + j*d3 + k is (i, j, k).
C21_ScellMaskLexicographic ==
    (op = "scell" /\ pc # "ready") =>
        LET d == scArgs.dims
            mask == scRet.mask
        IN  /\ Len(mask) = d[1] * d[2] * d[3]
            /\ \A i \in 0..(d[1] - 1), j \in 0..(d[2] - 1), k \in 0..(d[3] - 1) :
                    mask[i * d[2] * d[3] + j * d[3] + k + 1] = <<i, j, k>>
            /\ \A a, b \in DOMAIN mask : a # b => mask[a] # mask[b]

C21_Witness ==
    /\ op = "scell" /\ pc = "returned"
    /\ scArgs.dims[1] = 1 /\ scArgs.dims[2] >= 2 /\ scArgs.dims[3] >= 2
    /\ scRet.mask[2] = <<0, 0, 1>>
    /\ scRet.mask[scArgs.dims[3] + 1] = <<0, 1, 0>>

\* ---------------------------------------------------- volume_cell, volume_cc
\* cell.shape of a 2d array given as the sequence of its rows
Shape(m) == <<Len(m), Len(m[1])>>

\* np.linalg.det(cell) of a 3x3 matrix
Det3(m) ==
      m[1][1] * (m[2][2] * m[3][3] - m[2][3] * m[3][2])
    - m[1][2] * (m[2][1] * m[3][3] - m[2][3] * m[3][1])
    + m[1][3] * (m[2][1] * m[3][2] - m[2][2] * m[3][1])

\* volume_cell(cell): assert_cond on the shape, then abs(np.linalg.det(cell))
volume_cell(c) ==
    IF Shape(c) # <<3, 3>>
    THEN [err |-> "AssertionError", value |-> <<>>]
    ELSE [err |-> "", value |-> <<Abs(Det3(c))>>]

\* 2 * cos(angle * pi / 180) for the angles whose cosine is a multiple of 1/2
Cos2(angle) ==
    CASE angle = 60 -> 1 [] angle = 90 -> 0 [] angle = 120 -> -1 [] angle = 180 -> -2

\* 4 * (1 + 2 cos(alpha) cos(beta) cos(gamma) - cos(alpha)^2 - cos(beta)^2
\*      - cos(gamma)^2)
Radicand4(cc) ==
    4 + Cos2(cc[4]) * Cos2(cc[5]) * Cos2(cc[6])
      - Cos2(cc[4]) * Cos2(cc[4]) - Cos2(cc[5]) * Cos2(cc[5])
      - Cos2(cc[6]) * Cos2(cc[6])

\* volume_cc(cryst_const): assert on the length; math.sqrt raises
\* ValueError for a negative argument; the value a*b*c*sqrt(radicand) is
\* kept as <<a*b*c, 4 * radicand>>
volume_cc(cc) ==
    IF Len(cc) # 6 THEN [err |-> "AssertionError", value |-> <<>>]
    ELSE IF Radicand4(cc) < 0 THEN [err |-> "ValueError", value |-> <<>>]
    ELSE [err |-> "", value |-> <<cc[1] * cc[2] * cc[3], Radicand4(cc)>>]

\* the arrays volume_cell is called with: 3x3, 2x2, 2x3 and 3x2
VolCells ==
    UNION { [1..r -> [1..c -> 0..MaxEntry]] :
                r \in {2, 3}, c \in {2, 3} }

VolAngles == {60, 90, 120, 180}

\* the cryst_const volume_cc is called with: six entries, or only five
VolCCs ==
    { <<a, b, c, al, be, ga>> :
        a \in {1}, b \in 1..2, c \in 1..2, al \in VolAngles, be \in VolAngles,
        ga \in VolAngles }
    \cup { <<1, 1, 1, al, be>> : al \in VolAngles, be \in VolAngles }

InitVolume ==
    /\ pc = "ready"
    /\ \/ op = "volume_cell" /\ volArgs \in VolCells
       \/ op = "volume_cc" /\ volArgs \in VolCCs
    /\ volRet = [err |-> "", value |-> <<>>]
    /\ IdleMIC
    /\ IdleDist
    /\ IdleNN
    /\ IdleRpdf
    /\ IdleScell
    /\ IdleWrap
    /\ IdleIter
    /\ IdleRandom
    /\ IdleUnits
    /\ IdleMICFloat
    /\ IdleCaller

CallVolumeCell ==
    /\ op = "volume_cell" /\ pc = "ready"
    /\ volRet' = volume_cell(volArgs)
    /\ pc' = IF volRet'.err = "" THEN "returned" ELSE "raised"
    /\ UNCHANGED <<op, volArgs>>
    /\ UNCHANGED <<micVars, distVars, nnVars, rpVars, scVars, wrVars, itVars, rsVars, unVars, mfVars, rcVars>>

CallVolumeCC ==
    /\ op = "volume_cc" /\ pc = "ready"
    /\ volRet' = volume_cc(volArgs)
    /\ pc' = IF volRet'.err = "" THEN "returned" ELSE "raised"
    /\ UNCHANGED <<op, volArgs>>
    /\ UNCHANGED <<micVars, distVars, nnVars, rpVars, scVars, wrVars, itVars, rsVars, unVars, mfVars, rcVars>>

NextVolume ==
    \/ CallVolumeCell
    \/ CallVolumeCC

SpecVolume == InitVolume /\ [][NextVolume]_vars

\* ---------------------------------------------------------------- claim C22
\* C22: an invalid lattice never yields a numeric result: volume_cell
\* raises for every input that is not 3x3 and for every singular 3x3
\* matrix, volume_cc raises for every angle combination with a negative
\* radicand.
C22_InvalidLatticeRejected ==
    /\ (op = "volume_cell" /\ pc # "ready"
            /\ (Shape(volArgs) # <<3, 3>> \/ Det3(volArgs) = 0)) =>
        (pc = "raised" /\ volRet.value = <<>>)
    /\ (op = "volume_cc" /\ pc # "ready" /\ Len(volArgs) = 6
            /\ Radicand4(volArgs) < 0) =>
        (pc = "raised" /\ volRet.value = <<>>)

\* ------------------------------------------------- floating point numbers
\* the spacing of the floats around the magnitude a
RECURSIVE Ulp(_)
Ulp(a) == IF a < Pow2(MantBits) THEN 1 ELSE 2 * Ulp(a \div 2)

\* the magnitude a >= 0 rounded to the nearest float, ties to the even mantissa
RoundMag(a) ==
    LET q == Ulp(a)
        lo == (a \div q) * q
        r == a - lo
    IN  IF 2 * r < q THEN lo
        ELSE IF 2 * r > q THEN lo + q
        ELSE IF (lo \div q) % 2 = 0 THEN lo ELSE lo + q

\* the real number x (in units) rounded to a float
FlRound(x) == IF x >= 0 THEN RoundMag(x) ELSE -RoundMag(-x)

IsFloat(x) == FlRound(x) = x

\* the float operations x + y and x - y
FAdd(x, y) == FlRound(x + y)
FSub(x, y) == FlRound(x - y)

\* C fmod(x, 1.0): the remainder with the sign of x, always exact
Fmod1(x) == IF x >= 0 THEN x % FOne ELSE -((-x) % FOne)

\* x % 1.0 of numpy and Python: fmod(x, 1.0), plus 1.0 if that is negative
Mod1(x) == IF Fmod1(x) < 0 THEN FAdd(Fmod1(x), FOne) ELSE Fmod1(x)

\* --------------------------------------------------------- pbc_wrap_coords
\* tmp[sl] %= 1.0 for every axis i with mask[i], on an array of 3-vectors
WrapValue(a, mask) ==
    [n \in DOMAIN a |-> [i \in XYZ |-> IF mask[i] THEN Mod1(a[n][i]) ELSE a[n][i]]]

\* the components of the arrays passed in, all of them floats
WrapVals == {-FOne - FHalf, -FOne, -1, 0, 1, FHalf, FOne, FOne + FHalf}

InitWrap ==
    /\ op = "pbc_wrap_coords" /\ pc = "ready"
    /\ \E v \in [XYZ -> WrapVals], m \in [XYZ -> BOOLEAN] :
        /\ wrCoords = << v >>
        /\ wrArgs = [coords0 |-> << v >>, mask |-> m, copy |-> <<>>]
    /\ wrRet = <<>>
    /\ IdleMIC
    /\ IdleDist
    /\ IdleNN
    /\ IdleRpdf
    /\ IdleScell
    /\ IdleVolume
    /\ IdleIter
    /\ IdleRandom
    /\ IdleUnits
    /\ IdleMICFloat
    /\ IdleCaller

\* pbc_wrap_coords(coords_frac, copy, mask) on the caller's array
WrapCall(copy) ==
    /\ op = "pbc_wrap_coords" /\ pc = "ready"
    /\ pc' = "returned"
    /\ wrRet' = << [value |-> WrapValue(wrCoords, wrArgs.mask), isArg |-> ~copy] >>
    /\ wrCoords' = IF copy THEN wrCoords ELSE WrapValue(wrCoords, wrArgs.mask)
    /\ wrArgs' = [wrArgs EXCEPT !.copy = <<copy>>]
    /\ UNCHANGED op
    /\ UNCHANGED <<micVars, distVars, nnVars, rpVars, scVars, volVars, itVars, rsVars, unVars, mfVars, rcVars>>

\* a second call, on the array the first call returned
WrapCallOnResult(copy) ==
    /\ op = "pbc_wrap_coords" /\ pc = "returned" /\ Len(wrRet) = 1
    /\ wrRet' = Append(wrRet,
            [value |-> WrapValue(wrRet[1].value, wrArgs.mask), isArg |-> FALSE])
    /\ wrCoords' = IF ~copy /\ wrRet[1].isArg
                   THEN WrapValue(wrCoords, wrArgs.mask) ELSE wrCoords
    /\ wrArgs' = [wrArgs EXCEPT !.copy = Append(wrArgs.copy, copy)]
    /\ UNCHANGED <<op, pc>>
    /\ UNCHANGED <<micVars, distVars, nnVars, rpVars, scVars, volVars, itVars, rsVars, unVars, mfVars, rcVars>>

NextWrap ==
    \/ \E copy \in BOOLEAN : WrapCall(copy)
    \/ \E copy \in BOOLEAN : WrapCallOnResult(copy)

SpecWrap == InitWrap /\ [][NextWrap]_vars

\* ---------------------------------------------------------------- claim C23
WrapReturned == op = "pbc_wrap_coords" /\ pc = "returned"

\* C23: pbc_wrap_coords wraps exactly the masked axes: every component
\* on a masked axis lies in [0, 1) and differs from the input by an
\* integer, every other component equals the input; with copy=True the
\* input array is unchanged, with copy=False it holds the wrapped values;
\* a second application gives the same result as the first.
C23_WrapsExactlyMaskedAxes ==
    WrapReturned =>
        LET r == wrRet[1].value
            a0 == wrArgs.coords0
        IN  /\ \A n \in DOMAIN a0 : \A i \in XYZ :
                IF wrArgs.mask[i]
                THEN /\ 0 <= r[n][i] /\ r[n][i] < FOne
                     /\ (r[n][i] - a0[n][i]) % FOne = 0
                ELSE r[n][i] = a0[n][i]
            /\ wrArgs.copy[1] => (Len(wrRet) = 1 => wrCoords = a0)
            /\ ~wrArgs.copy[1] => (Len(wrRet) = 1 => wrCoords = r)
            /\ Len(wrRet) = 2 => wrRet[2].value = r

\* ---------------------------------------------------- Trajectory iteration
\* for s in traj: calls iter(traj) once, which returns traj itself
\* (__iter__), then traj.next() before every pass of the body until
\* StopIteration.  A loop is [yielded, status]: the Structures it was
\* given, as <<step index, content of that step>>, and "running", "done"
\* (StopIteration) or "broken" (left with break).

\* the test made one step early
StopReachedEarly(index, nstep) == index + 1 >= nstep

\* if self._index == self.nstep
StopReached(index, nstep) == index = nstep

\* self[self._index]: the Structure of one time step
GetItem(tr, idx) == <<idx, tr.data[idx + 1]>>

\* the Trajectory after construction: _index = -1
IterTrajs ==
    UNION { { [nstep |-> n, data |-> d, index |-> -1] : d \in [1..n -> {"a", "b"}] } :
            n \in 0..MaxIterSteps }

\* passes of the loop bodies, all loops together
RECURSIVE BodyPasses(_)
BodyPasses(loops) ==
    IF loops = <<>> THEN 0 ELSE Len(Head(loops).yielded) + BodyPasses(Tail(loops))

\* the cap on the passes explored
MaxPasses == MaxIterSteps * MaxIterSteps + 1

InitIter ==
    /\ op = "Trajectory.next" /\ pc = "ready"
    /\ itTraj \in IterTrajs
    /\ itLoops = <<>>
    /\ itStack = <<>>
    /\ IdleMIC
    /\ IdleDist
    /\ IdleNN
    /\ IdleRpdf
    /\ IdleScell
    /\ IdleVolume
    /\ IdleWrap
    /\ IdleRandom
    /\ IdleUnits
    /\ IdleMICFloat
    /\ IdleCaller

\* a for-loop starts while no other loop is running
StartLoop ==
    /\ op = "Trajectory.next"
    /\ itStack = <<>>
    /\ Len(itLoops) < MaxLoops
    /\ itLoops' = Append(itLoops, [yielded |-> <<>>, status |-> "running", depth |-> 1])
    /\ itStack' = <<Len(itLoops) + 1>>
    /\ UNCHANGED <<op, pc, itTraj>>
    /\ UNCHANGED <<micVars, distVars, nnVars, rpVars, scVars, volVars, wrVars, rsVars, unVars, mfVars, rcVars>>

\* a for-loop starts in the body of a running loop
StartNestedLoop ==
    /\ op = "Trajectory.next"
    /\ Len(itStack) = 1
    /\ itLoops[itStack[1]].yielded # <<>>
    /\ Len(itLoops) < MaxLoops
    /\ itLoops' = Append(itLoops, [yielded |-> <<>>, status |-> "running", depth |-> 2])
    /\ itStack' = Append(itStack, Len(itLoops) + 1)
    /\ UNCHANGED <<op, pc, itTraj>>
    /\ UNCHANGED <<micVars, distVars, nnVars, rpVars, scVars, volVars, wrVars, rsVars, unVars, mfVars, rcVars>>

\* the innermost running loop calls next()
LoopNext ==
    /\ op = "Trajectory.next"
    /\ itStack # <<>>
    /\ BodyPasses(itLoops) < MaxPasses
    /\ LET l == itStack[Len(itStack)]
           i == itTraj.index + 1
       IN  IF StopReached(i, itTraj.nstep)
           THEN /\ itTraj' = [itTraj EXCEPT !.index = -1]
                /\ itLoops' = [itLoops EXCEPT ![l].status = "done"]
                /\ itStack' = SubSeq(itStack, 1, Len(itStack) - 1)
           ELSE /\ itTraj' = [itTraj EXCEPT !.index = i]
                /\ itLoops' = [itLoops EXCEPT
                        ![l].yielded = Append(@, GetItem(itTraj, i))]
                /\ itStack' = itStack
    /\ UNCHANGED <<op, pc>>
    /\ UNCHANGED <<micVars, distVars, nnVars, rpVars, scVars, volVars, wrVars, rsVars, unVars, mfVars, rcVars>>

\* the innermost running loop is left with break in its body
LoopBreak ==
    /\ op = "Trajectory.next"
    /\ itStack # <<>>
    /\ LET l == itStack[Len(itStack)]
       IN  /\ itLoops[l].yielded # <<>>
           /\ itLoops' = [itLoops EXCEPT ![l].status = "broken"]
    /\ itStack' = SubSeq(itStack, 1, Len(itStack) - 1)
    /\ UNCHANGED <<op, pc, itTraj>>
    /\ UNCHANGED <<micVars, distVars, nnVars, rpVars, scVars, volVars, wrVars, rsVars, unVars, mfVars, rcVars>>

\* loops that run to completion, one after the other
NextIter ==
    \/ StartLoop
    \/ LoopNext

SpecIter == InitIter /\ [][NextIter]_vars

\* loops that may be left with break and may be nested
NextIterAny ==
    \/ StartLoop
    \/ StartNestedLoop
    \/ LoopNext
    \/ LoopBreak

SpecIterAny == InitIter /\ [][NextIterAny]_vars

\* ---------------------------------------------------------------- claim C24
\* the Structures of all time steps, in order
AllSteps == [k \in 1..itTraj.nstep |-> <<k - 1, itTraj.data[k]>>]

\* C24: a for-loop that runs to completion yields exactly nstep
\* Structures, the k-th being time step k, in increasing order, then
\* stops; a second complete loop yields the same sequence again.
C24_CompleteLoopYieldsAllSteps ==
    op = "Trajectory.next" =>
        \A l \in DOMAIN itLoops :
            /\ itLoops[l].status = "done" => itLoops[l].yielded = AllSteps
            /\ itLoops[l].status = "running" =>
                    /\ Len(itLoops[l].yielded) <= itTraj.nstep
                    /\ itLoops[l].yielded = SubSeq(AllSteps, 1, Len(itLoops[l].yielded))

C24_Witness ==
    /\ op = "Trajectory.next"
    /\ itTraj.nstep >= 2
    /\ Len(itLoops) >= 2
    /\ itLoops[1].status = "done" /\ itLoops[2].status = "done"
    /\ itLoops[2].yielded = AllSteps
    /\ itTraj.data[1] # itTraj.data[2]

\* ---------------------------------------------------------------- claim C30
\* C30: every iteration starts at time step 0 and visits all nstep steps,
\* independently of the other iterations over the same object: what a
\* loop has been given so far is the first steps in order, also after an
\* earlier loop was left with break and also in a nested loop, and a loop
\* that came to its end has been given every step.
C30_IterationsIndependent ==
    op = "Trajectory.next" =>
        \A l \in DOMAIN itLoops :
            /\ Len(itLoops[l].yielded) <= itTraj.nstep
            /\ itLoops[l].yielded = SubSeq(AllSteps, 1, Len(itLoops[l].yielded))
            /\ itLoops[l].status = "done" => itLoops[l].yielded = AllSteps

\* ------------------------------------------------------- RandomStructure
\* Lengths of the cell in whole units, fractional coordinates in quarters,
\* so that distances are in quarters and squared distances in 1/16.  All
\* atoms are of one species: dij_min is one number.

\* dij_min = (cov_radii + cov_radii[:,None]) * close_scale, squared
DijMinSq == 9

\* vol_range = [vol_mean * vol_range_scale[0], vol_mean * vol_range_scale[1]]
VolRange == <<2, 20>>

\* cryst_const that _get() draws: cubic with edge 1, 2 or 3
RsCCs == { <<a, a, a, 90, 90, 90>> : a \in 1..3 }

\* positions that np.random.rand(3) draws
RsPositions == { <<x, y, 0>> : x \in 0..(One - 1), y \in {0, Half} }

\* cc2cell(cryst_const) of a cell with right angles
cc2cell(cc) == <<<<cc[1], 0, 0>>, <<0, cc[2], 0>>, <<0, 0, cc[3]>>>>

\* self.vol_range[0] <= vol <= self.vol_range[1], for vol = a*b*c*sqrt(r4/4)
VolInRange(cc) ==
    LET v == volume_cc(cc).value
    IN  /\ 4 * VolRange[1] * VolRange[1] <= v[1] * v[1] * v[2]
        /\ v[1] * v[1] * v[2] <= 4 * VolRange[2] * VolRange[2]

\* the check that lets every position pass
NeverTooClose(coords, c) == FALSE

\* _atoms_too_close(iatom) on the atoms filled in so far:
\* np.triu(dist < dij_min_filled, k=1).any()
AtomsTooClose(coords, c) ==
    LET dsq == distsq_frac(coords, c, TRUE).distsq
    IN  \E i, j \in DOMAIN coords : i < j /\ dsq[i][j] < DijMinSq

\* self.coords_frac[iatom,:] = ...
SetRow(coords, i, p) ==
    IF i <= Len(coords) THEN [coords EXCEPT ![i] = p] ELSE Append(coords, p)

InitRandom ==
    /\ op = "_get_random_struct" /\ pc = "cell"
    /\ \E n \in 1..MaxAtoms, am \in 0..MaxTry, cm \in 0..MaxTry :
        rsArgs = [natoms |-> n, atom_maxtry |-> am, cell_maxtry |-> cm]
    /\ rsLoc = [cell |-> <<>>, cc |-> <<>>, cellcnt |-> 1, cellchecks |-> <<>>,
                coords |-> <<>>, iatom |-> 0, cnt |-> 1, checks |-> <<>>,
                counters |-> <<>>]
    /\ rsRet = <<>>
    /\ IdleMIC
    /\ IdleDist
    /\ IdleNN
    /\ IdleRpdf
    /\ IdleScell
    /\ IdleVolume
    /\ IdleWrap
    /\ IdleIter
    /\ IdleUnits
    /\ IdleMICFloat
    /\ IdleCaller

\* one pass of the while loop of get_random_cryst_const, or its exit
RsCellPass ==
    /\ op = "_get_random_struct" /\ pc = "cell"
    /\ IF rsLoc.cellcnt <= rsArgs.cell_maxtry
       THEN \E cc \in RsCCs :
               IF ~VolInRange(cc)
               THEN /\ rsLoc' = [rsLoc EXCEPT !.cellcnt = @ + 1,
                                              !.cellchecks = Append(@, FALSE)]
                    /\ pc' = pc
               ELSE /\ rsLoc' = [rsLoc EXCEPT !.cc = <<cc>>, !.cell = <<cc2cell(cc)>>,
                                              !.cellchecks = Append(@, TRUE)]
                    /\ pc' = "atoms"
       ELSE /\ pc' = "RandomStructureFail"
            /\ rsLoc' = rsLoc
    /\ UNCHANGED <<op, rsArgs, rsRet>>
    /\ UNCHANGED <<micVars, distVars, nnVars, rpVars, scVars, volVars, wrVars, itVars, unVars, mfVars, rcVars>>

\* the first atom: cnt = 1 and one position, not checked
RsFirstAtom ==
    /\ op = "_get_random_struct" /\ pc = "atoms"
    /\ rsLoc.iatom = 0
    /\ \E p \in RsPositions :
        rsLoc' = [rsLoc EXCEPT !.coords = <<p>>, !.cnt = 1, !.checks = <<>>,
                               !.counters = Append(@, 1),
                               !.iatom = IF 1 > rsArgs.atom_maxtry THEN @ ELSE 1]
    /\ pc' = IF 1 > rsArgs.atom_maxtry THEN "RandomStructureFail" ELSE pc
    /\ UNCHANGED <<op, rsArgs, rsRet>>
    /\ UNCHANGED <<micVars, distVars, nnVars, rpVars, scVars, volVars, wrVars, itVars, unVars, mfVars, rcVars>>

\* one pass of the while loop of an atom after the first, or the end of
\* the loop with what follows it
RsAtomPass ==
    /\ op = "_get_random_struct" /\ pc = "atoms"
    /\ rsLoc.iatom >= 1 /\ rsLoc.iatom < rsArgs.natoms
    /\ LET i == rsLoc.iatom + 1
       IN  IF rsLoc.cnt <= rsArgs.atom_maxtry
           THEN \E p \in RsPositions :
                  LET tried == SetRow(rsLoc.coords, i, p)
                  IN  IF AtomsTooClose(tried, rsLoc.cell[1])
                      THEN /\ \E q \in RsPositions :
                                rsLoc' = [rsLoc EXCEPT !.coords = SetRow(tried, i, q),
                                                       !.cnt = @ + 1,
                                                       !.checks = Append(@, TRUE)]
                           /\ pc' = pc
                      ELSE /\ rsLoc' = [rsLoc EXCEPT !.coords = tried,
                                                     !.checks = <<>>,
                                                     !.counters = Append(@, rsLoc.cnt),
                                                     !.cnt = 1,
                                                     !.iatom = @ + 1]
                           /\ pc' = pc
           ELSE /\ rsLoc' = [rsLoc EXCEPT !.counters = Append(@, rsLoc.cnt)]
                /\ pc' = "RandomStructureFail"
    /\ UNCHANGED <<op, rsArgs, rsRet>>
    /\ UNCHANGED <<micVars, distVars, nnVars, rpVars, scVars, volVars, wrVars, itVars, unVars, mfVars, rcVars>>

\* st = Structure(symbols, coords_frac, cell); return st
RsReturn ==
    /\ op = "_get_random_struct" /\ pc = "atoms"
    /\ rsLoc.iatom = rsArgs.natoms
    /\ rsRet' = <<[coords_frac |-> rsLoc.coords, cell |-> rsLoc.cell[1],
                  cryst_const |-> rsLoc.cc[1]]>>
    /\ pc' = "returned"
    /\ UNCHANGED <<op, rsArgs, rsLoc>>
    /\ UNCHANGED <<micVars, distVars, nnVars, rpVars, scVars, volVars, wrVars, itVars, unVars, mfVars, rcVars>>

NextRandom ==
    \/ RsCellPass
    \/ RsFirstAtom
    \/ RsAtomPass
    \/ RsReturn

SpecRandom == InitRandom /\ [][NextRandom]_vars

\* ---------------------------------------------------------------- claim C25
RsAllTrue(q) == \A k \in DOMAIN q : q[k]

\* squared distance of the nearest images of two atoms in a cubic cell of
\* edge a, in 1/16
NearestImageSq(p, q, a) ==
    LET d(k) == IF Abs(p[k] - q[k]) % One <= Half
                THEN Abs(p[k] - q[k]) % One
                ELSE One - (Abs(p[k] - q[k]) % One)
    IN  a * a * (d(1) * d(1) + d(2) * d(2) + d(3) * d(3))

\* some pair of atoms is closer than dij_min
SomePairCloser(coords, a) ==
    \E i, j \in DOMAIN coords :
        i # j /\ NearestImageSq(coords[i], coords[j], a) < DijMinSq

\* C25: at most atom_maxtry attempts per atom after the first and at most
\* cell_maxtry attempts for the cell; RandomStructureFail exactly when all
\* of them failed; a Structure that is returned has a cell whose checked
\* volume is in vol_range and no pair of atoms closer than dij_min.
C25_RandomStructureBoundedRetries ==
    op = "_get_random_struct" =>
        /\ Len(rsLoc.cellchecks) <= rsArgs.cell_maxtry
        /\ Len(rsLoc.checks) <= rsArgs.atom_maxtry
        /\ pc = "RandomStructureFail" =>
              \/ /\ rsLoc.cell = <<>>
                 /\ Len(rsLoc.cellchecks) = rsArgs.cell_maxtry
                 /\ \A k \in DOMAIN rsLoc.cellchecks : ~rsLoc.cellchecks[k]
              \/ /\ rsLoc.cell # <<>>
                 /\ Len(rsLoc.checks) = rsArgs.atom_maxtry
                 /\ RsAllTrue(rsLoc.checks)
        /\ (pc = "cell" /\ rsLoc.cellchecks # <<>>) =>
              ~rsLoc.cellchecks[Len(rsLoc.cellchecks)]
        /\ (pc = "atoms" /\ rsLoc.iatom >= 1) =>
              /\ RsAllTrue(rsLoc.checks)
              /\ ~SomePairCloser(SubSeq(rsLoc.coords, 1, rsLoc.iatom), rsLoc.cc[1][1])
        /\ pc = "returned" =>
              /\ VolInRange(rsRet[1].cryst_const)
              /\ rsRet[1].cell = cc2cell(rsRet[1].cryst_const)
              /\ Len(rsRet[1].coords_frac) = rsArgs.natoms
              /\ ~SomePairCloser(rsRet[1].coords_frac, rsRet[1].cryst_const[1])

\* a Structure of three atoms is returned after a failed attempt
C25_Witness ==
    /\ op = "_get_random_struct" /\ pc = "returned"
    /\ rsArgs.natoms = 3
    /\ Len(rsLoc.cellchecks) = 2
    /\ \E k \in DOMAIN rsLoc.counters : rsLoc.counters[k] = 2

\* ------------------------------------------------------------ unit factors
\* An object is a record of the attributes that carry a unit (cell and
\* cryst_const as the edge of a cubic cell, coords as one cartesian
\* component in quarters, etot), coords_frac in quarters, its unit factors
\* and units_applied.  An attribute that is None is <<>>.  Kept along for
\* the claim: rawA, rawE and frac are the edge, the energy and the
\* fractional coordinate as first given, scale and escale the factors an
\* object this one was copied from had already applied.

\* the guard left out: the factors are applied on every call
AlwaysApply(o) == TRUE

\* if not self.units_applied
NotYetApplied(o) == ~o.units_applied

\* attr * factor of an attribute that may be None
Times(attr, f) == IF attr = <<>> THEN <<>> ELSE <<attr[1] * f>>

\* _apply_units_raw(): cryst_const[:3] *= units['length'], then every set
\* attribute of units_map whose factor is not 1.0
ApplyUnitsRaw(o) ==
    LET cc == Times(o.cryst_const, o.length)
    IN  [o EXCEPT !.cryst_const = cc,
                  !.cell = IF o.length # 1 THEN Times(@, o.length) ELSE @,
                  !.coords = IF o.length # 1 THEN Times(@, o.length) ELSE @,
                  !.etot = IF o.energy # 1 THEN Times(@, o.energy) ELSE @,
                  !.units_applied = TRUE]

\* apply_units()
apply_units(o) == IF NotYetApplied(o) THEN ApplyUnitsRaw(o) ELSE o

\* the getters that set_all() calls for the attributes that are None:
\* get_cell, get_cryst_const, get_coords, get_coords_frac
CallGetters(o) ==
    LET c == IF o.cell # <<>> THEN o.cell ELSE o.cryst_const
        cc == IF o.cryst_const # <<>> THEN o.cryst_const ELSE o.cell
        x == IF o.coords # <<>> \/ o.coords_frac = <<>> \/ c = <<>> THEN o.coords
             ELSE <<o.coords_frac[1] * c[1]>>
        xf == IF o.coords_frac # <<>> \/ o.coords = <<>> \/ c = <<>> THEN o.coords_frac
              ELSE <<o.coords[1] \div c[1]>>
    IN  [o EXCEPT !.cell = c, !.cryst_const = cc, !.coords = x, !.coords_frac = xf]

\* Structure.set_all() and Trajectory.set_all()
set_all(o) == CallGetters(apply_units(o))

\* the factor the length attributes of an object carry
EffScale(o) == o.scale * (IF o.units_applied THEN o.length ELSE 1)
EffEScale(o) == o.escale * (IF o.units_applied THEN o.energy ELSE 1)

\* Structure(set_all_auto=False) or Trajectory(set_all_auto=False) with the
\* attributes of o copied over
CopyAttrs(o, kind, applied) ==
    [o EXCEPT !.kind = kind, !.length = 1, !.energy = 1,
              !.units_applied = applied,
              !.scale = EffScale(o), !.escale = EffEScale(o)]

\* the objects a constructor is called with
UnitObjects ==
    { [kind |-> k, length |-> l, energy |-> e, units_applied |-> FALSE,
       cell |-> IF g[1] \in {"cell", "both"} THEN <<3>> ELSE <<>>,
       cryst_const |-> IF g[1] \in {"cc", "both"} THEN <<3>> ELSE <<>>,
       coords |-> IF g[2] \in {"coords", "both"} THEN <<3 * f>> ELSE <<>>,
       coords_frac |-> IF g[2] \in {"frac", "both"} THEN <<f>> ELSE <<>>,
       etot |-> IF g[3] THEN <<1>> ELSE <<>>,
       rawA |-> 3, rawE |-> 1, frac |-> f, scale |-> 1, escale |-> 1] :
      k \in {"Structure", "Trajectory"}, l \in {1, 2}, e \in {1, 3},
      f \in {1, One + 1},
      g \in {"cell", "cc", "both"} \X {"coords", "frac", "both"} \X BOOLEAN }

\* Structure(...) or Trajectory(...): set_all() if set_all_auto
InitUnits ==
    /\ op = "apply_units" /\ pc = "ready"
    /\ \E o \in UnitObjects, set_all_auto \in BOOLEAN :
          uObjs = << IF set_all_auto THEN set_all(o) ELSE o >>
    /\ IdleMIC
    /\ IdleDist
    /\ IdleNN
    /\ IdleRpdf
    /\ IdleScell
    /\ IdleVolume
    /\ IdleWrap
    /\ IdleIter
    /\ IdleRandom
    /\ IdleMICFloat
    /\ IdleCaller

UnitsFrame ==
    /\ UNCHANGED <<op, pc>>
    /\ UNCHANGED <<micVars, distVars, nnVars, rpVars, scVars, volVars, wrVars, itVars, rsVars, mfVars, rcVars>>

\* obj.apply_units()
CallApplyUnits ==
    /\ op = "apply_units"
    /\ \E i \in DOMAIN uObjs : uObjs' = [uObjs EXCEPT ![i] = apply_units(@)]
    /\ UnitsFrame

\* obj.set_all()
CallSetAll ==
    /\ op = "apply_units"
    /\ \E i \in DOMAIN uObjs : uObjs' = [uObjs EXCEPT ![i] = set_all(@)]
    /\ UnitsFrame

\* obj.copy(): self.set_all(), the attributes copied, st.set_all()
CallCopy ==
    /\ op = "apply_units"
    /\ Len(uObjs) < MaxObjs
    /\ \E i \in DOMAIN uObjs :
        LET self == set_all(uObjs[i])
        IN  uObjs' = Append([uObjs EXCEPT ![i] = self],
                            set_all(CopyAttrs(self, self.kind, FALSE)))
    /\ UnitsFrame

\* struct.get_traj(nstep): Trajectory(set_all_auto=True), the attributes
\* copied, tr.set_all()
CallGetTraj ==
    /\ op = "apply_units"
    /\ Len(uObjs) < MaxObjs
    /\ \E i \in DOMAIN uObjs :
        /\ uObjs[i].kind = "Structure"
        /\ uObjs' = Append(uObjs, set_all(CopyAttrs(uObjs[i], "Trajectory", TRUE)))
    /\ UnitsFrame

\* traj[idx]: Structure(set_all_auto=False) with the attributes of one step
CallGetItem ==
    /\ op = "apply_units"
    /\ Len(uObjs) < MaxObjs
    /\ \E i \in DOMAIN uObjs :
        /\ uObjs[i].kind = "Trajectory"
        /\ uObjs' = Append(uObjs, CopyAttrs(uObjs[i], "Structure", FALSE))
    /\ UnitsFrame

\* out.coords = None; pbc_wrap_coords(out.coords_frac, copy=False); out.set_all()
WrapObject(o) ==
    set_all([o EXCEPT !.coords = <<>>, !.coords_frac = <<@[1] % One>>,
                      !.frac = @ % One])

\* pbc_wrap(obj, copy): on obj.copy() or on obj itself
CallPbcWrap ==
    /\ op = "apply_units"
    /\ \E i \in DOMAIN uObjs :
        \/ /\ Len(uObjs) < MaxObjs
           /\ LET self == set_all(uObjs[i])
              IN  uObjs' = Append([uObjs EXCEPT ![i] = self],
                      WrapObject(set_all(CopyAttrs(self, self.kind, FALSE))))
        \/ /\ uObjs[i].coords_frac # <<>>
           /\ uObjs' = [uObjs EXCEPT ![i] = WrapObject(@)]
    /\ UnitsFrame

NextUnits ==
    \/ CallApplyUnits
    \/ CallSetAll
    \/ CallCopy
    \/ CallGetTraj
    \/ CallGetItem
    \/ CallPbcWrap

SpecUnits == InitUnits /\ [][NextUnits]_vars

\* ---------------------------------------------------------------- claim C26
\* every attribute with a unit is the value first given times the factors
\* applied, each factor once
AppliedOnce(o) ==
    /\ o.cell # <<>> => o.cell[1] = o.rawA * EffScale(o)
    /\ o.cryst_const # <<>> => o.cryst_const[1] = o.rawA * EffScale(o)
    /\ o.coords # <<>> => o.coords[1] = o.frac * o.rawA * EffScale(o)
    /\ o.etot # <<>> => o.etot[1] = o.rawE * EffEScale(o)
    /\ o.coords_frac # <<>> => o.coords_frac[1] = o.frac

\* C26: after any sequence of apply_units(), set_all(), copy(), pbc_wrap()
\* and get_traj() every attribute of units_map and the lengths of
\* cryst_const have been multiplied by their unit factor exactly once, and
\* units_applied never goes back from True to False.
C26_UnitsAppliedOnce ==
    /\ [](op = "apply_units" => \A i \in DOMAIN uObjs : AppliedOnce(uObjs[i]))
    /\ [][op = "apply_units" =>
            \A i \in DOMAIN uObjs :
                uObjs[i].units_applied => uObjs'[i].units_applied]_vars

\* a copy of an object with a length factor of 2, after a further set_all()
C26_Witness ==
    /\ op = "apply_units"
    /\ Len(uObjs) = 2
    /\ uObjs[1].length = 2 /\ uObjs[1].units_applied
    /\ uObjs[2].units_applied /\ uObjs[2].scale = 2
    /\ uObjs[2].cell = <<6>> /\ uObjs[2].coords # <<>>

\* ---------------------------------------------------------------- claim C27
\* Structure.get_natoms(): len(self.symbols) if symbols is set, else the
\* number of rows of the coordinates
get_natoms(st) ==
    IF ~IsNone(st.symbols) THEN Len(Val(st.symbols)) ELSE Len(st.coords_frac)

\* what a caller sees of a returned Structure
StructView(st) ==
    [coords_frac |-> st.coords_frac, cell |-> st.cell, symbols |-> st.symbols,
     natoms |-> get_natoms(st)]

\* C27: method=1 and method=2 return structures with the same fractional
\* coordinates, cell, species labels and atom count, for every structure
\* and dims, also when symbols is None.
C27_ScellMethodsAgree ==
    (ScellReturned /\ scArgs.method \in {1, 2}) =>
        /\ scRet.struct = scell(scStruct, scArgs.dims, scArgs.method).struct
        /\ StructView(scRet.struct)
             = StructView(scell(scStruct, scArgs.dims, 3 - scArgs.method).struct)

\* ------------------------------------- min_image_convention on floats
\* The two while loops of min_image_convention pass by pass, on an array
\* of floats: sij[mask] -= 1.0 and sij[mask] += 1.0 are rounded.

\* sij[mask] -= 1.0 of one component
SubOne(x, y) == FSub(x, y)

FMaskHigh(a) == [i \in DOMAIN a |-> a[i] >= FHalf]
FMaskLow(a) == [i \in DOMAIN a |-> a[i] < -FHalf]
FSubMasked(a, mask) ==
    [i \in DOMAIN a |-> IF mask[i] THEN SubOne(a[i], FOne) ELSE a[i]]
FAddMasked(a, mask) ==
    [i \in DOMAIN a |-> IF mask[i] THEN -SubOne(-a[i], FOne) ELSE a[i]]

\* the largest magnitude of the inputs: 2^(MantBits+1), as a float
MfLargest == FOne * Pow2(MantBits + 1)

\* the floats up to that magnitude
MfVals == { x \in (-MfLargest)..MfLargest : IsFloat(x) }

\* the passes explored of a loop that does not end
MfPassCap == Pow2(MantBits + 1) + 2

InitMICFloat ==
    /\ op = "min_image_convention(float)" /\ pc = "high"
    /\ \E x \in MfVals, y \in {-FOne - FHalf, 0, FHalf} : mfSij = <<x, y>>
    /\ mfSij0 = mfSij
    /\ mfPasses = [high |-> 0, low |-> 0]
    /\ IdleMIC
    /\ IdleDist
    /\ IdleNN
    /\ IdleRpdf
    /\ IdleScell
    /\ IdleVolume
    /\ IdleWrap
    /\ IdleIter
    /\ IdleRandom
    /\ IdleUnits
    /\ IdleCaller

MfFrame ==
    /\ UNCHANGED <<op, mfSij0>>
    /\ UNCHANGED <<micVars, distVars, nnVars, rpVars, scVars, volVars, wrVars, itVars, rsVars, unVars, rcVars>>

\* one pass of: while mask.any(): sij[mask] -= 1.0; mask = sij >= 0.5
MfHighPass ==
    /\ op = "min_image_convention(float)" /\ pc = "high"
    /\ Any(FMaskHigh(mfSij))
    /\ mfPasses.high < MfPassCap
    /\ mfSij' = FSubMasked(mfSij, FMaskHigh(mfSij))
    /\ mfPasses' = [mfPasses EXCEPT !.high = @ + 1]
    /\ pc' = pc
    /\ MfFrame

\* the first loop ends: mask = sij < -0.5
MfHighDone ==
    /\ op = "min_image_convention(float)" /\ pc = "high"
    /\ ~Any(FMaskHigh(mfSij))
    /\ pc' = "low"
    /\ UNCHANGED <<mfSij, mfPasses>>
    /\ MfFrame

\* one pass of: while mask.any(): sij[mask] += 1.0; mask = sij < -0.5
MfLowPass ==
    /\ op = "min_image_convention(float)" /\ pc = "low"
    /\ Any(FMaskLow(mfSij))
    /\ mfPasses.low < MfPassCap
    /\ mfSij' = FAddMasked(mfSij, FMaskLow(mfSij))
    /\ mfPasses' = [mfPasses EXCEPT !.low = @ + 1]
    /\ pc' = pc
    /\ MfFrame

\* the second loop ends: return sij
MfLowDone ==
    /\ op = "min_image_convention(float)" /\ pc = "low"
    /\ ~Any(FMaskLow(mfSij))
    /\ pc' = "returned"
    /\ UNCHANGED <<mfSij, mfPasses>>
    /\ MfFrame

NextMICFloat ==
    \/ MfHighPass
    \/ MfHighDone
    \/ MfLowPass
    \/ MfLowDone

SpecMICFloat == InitMICFloat /\ [][NextMICFloat]_vars

\* ---------------------------------------------------------------- claim C28
\* the largest |component| of the input rounded up, plus one
MfPassBound ==
    LET m == IF Abs(mfSij0[1]) >= Abs(mfSij0[2]) THEN Abs(mfSij0[1])
             ELSE Abs(mfSij0[2])
    IN  CeilDiv(m, FOne) + 1

\* C28: each of the two loops runs at most ceil(largest |component|) + 1
\* passes, and after the second loop no component is >= 0.5, so that the
\* first loop is not needed again.
C28_LoopsTerminate ==
    op = "min_image_convention(float)" =>
        /\ mfPasses.high <= MfPassBound
        /\ mfPasses.low <= MfPassBound
        /\ pc = "returned" => ~Any(FMaskHigh(mfSij))

\* ---- rpdf called with trajs and amask passed in every way
\* trajs as a single Trajectory, as a list of one or as a list of two;
\* amask as None, as a list of one or as a list of two entries
InitRpdfCaller ==
    /\ op = "rpdf" /\ pc = "called"
    /\ \E n \in 1..MaxAtoms, ns \in 1..MaxSteps, form \in {"single", "list1", "list2"} :
        \E sy \in [1..n -> Species] :
            LET t0 == [symbols |-> sy,
                       coords_frac |-> [t \in 1..ns |-> Frame(n, 0)],
                       cell |-> [t \in 1..ns |->
                                   <<<<2, 0, 0>>, <<0, 2, 0>>, <<0, 0, 2>>>>],
                       nstep |-> ns]
            IN  /\ trajs = IF form = "list2" THEN <<t0, t0>> ELSE <<t0>>
                /\ rcTrajs = PassedTrajs(form # "single", trajs)
    /\ traj = NoTraj
    /\ \E am \in {<<>>} \cup [1..1 -> Masks] \cup [1..2 -> Masks],
          mm \in MaxMemLevels, pb \in BOOLEAN :
        /\ rpArgs = [amask |-> IF am = <<>> THEN <<"all", "all">> ELSE Doubled(am),
                     tmask |-> "all", dr |-> 2, rmax |-> 4,
                     pbc |-> pb, norm_vmd |-> FALSE, maxmem |-> mm]
        /\ rcAmask = PassedAmask(am # <<>>, am)
    /\ rpLoc = RpLoc0
    /\ rpOut = RpOut0
    /\ IdleMIC
    /\ IdleDist
    /\ IdleNN
    /\ IdleScell
    /\ IdleVolume
    /\ IdleWrap
    /\ IdleIter
    /\ IdleRandom
    /\ IdleUnits
    /\ IdleMICFloat

SpecRpdfCaller == InitRpdfCaller /\ [][NextRpdf]_vars

\* ---------------------------------------------------------------- claim C29
\* C29: after a call of rpdf the list passed as trajs and the list passed
\* as amask have the same length and the same elements as before the call,
\* and the coordinate arrays of the trajectories are unchanged.
C29_ArgumentsUnchanged ==
    (op = "rpdf" /\ pc \in {"returned", "raised"}) =>
        /\ rcTrajs.items = rcTrajs.items0
        /\ rcAmask.items = rcAmask.items0

====
